---------------------------- MODULE Spec2Model ----------------------------
(***************************************************************************)
(* State-machine model of the Science School 3D simulations: the two      *)
(* physics engines,                                                        *)
(*   - OhmsLawPhysics  (src/ohms_law_simulation/simulation/physics.py)     *)
(*   - VisionPhysics   (src/vision_simulation/simulation/physics.py)       *)
(* and the two applications built on them,                                 *)
(*   - OhmsLawSimulation  (src/ohms_law_simulation/main.py)                *)
(*   - VisionSimulation   (src/vision_simulation/main.py)                  *)
(* with, each followed on its own,                                         *)
(*   - Circuit and its Electrons                                           *)
(*                     (src/ohms_law_simulation/simulation/circuit.py)     *)
(*   - the camera controls of the two applications                         *)
(*   - HelpOverlay     (src/ohms_law_simulation/simulation/ui.py)          *)
(*   - a pair of VisionPhysics objects, for comparisons of two states      *)
(*                                                                         *)
(* Python floats are modelled as exact rationals [n |-> numerator,         *)
(* d |-> denominator] in lowest terms with d > 0, so equality of numbers   *)
(* is equality of records.  A float division by zero, which raises         *)
(* ZeroDivisionError in Python, yields the distinguished non-number        *)
(* ZeroDivisionError below.                                                *)
(***************************************************************************)
EXTENDS Integers, Sequences, FiniteSets, TLC

VARIABLES
    ohm,        \* the OhmsLawPhysics object: _voltage, _resistance, _current, _power
    ohm_call,   \* the last call made on it: operation, arguments, result
    vis,        \* the VisionPhysics object: _near_point, _object_distance,
                \*   _lens_power, _age, _required_power
    vis_call,   \* the last call made on it: operation, arguments, result
    ohm_sim,    \* the OhmsLawSimulation application: its physics, UI, camera
    vision_sim, \* the VisionSimulation application: its physics, UI, scene
    circuit,    \* the Circuit: battery, resistor and the electrons' animations
    ohm_camera, \* the camera controls of OhmsLawSimulation: held keys,
                \*   mouse drag, orbit parameters, position
    vision_camera,  \* the camera controls of VisionSimulation: mouse drag,
                    \*   orbit parameters
    help_overlay,   \* the HelpOverlay: visible flag, shown state of its
                    \*   elements
    vis_pair        \* two VisionPhysics objects, compared with each other

vars ==
    <<ohm, ohm_call, vis, vis_call, ohm_sim, vision_sim, circuit, ohm_camera,
      vision_camera, help_overlay, vis_pair>>

----------------------------------------------------------------------------
(* Float arithmetic, as exact rationals                                    *)

IAbs(i) == IF i < 0 THEN -i ELSE i

RECURSIVE GCD(_, _)
GCD(a, b) == IF b = 0 THEN a ELSE GCD(b, a % b)

\* The number n/d (d # 0) in lowest terms.
Q(n, d) ==
    LET g == GCD(IAbs(n), IAbs(d))
        s == IF d < 0 THEN -1 ELSE 1
    IN  [n |-> (s * n) \div g, d |-> (s * d) \div g]

R(i) == [n |-> i, d |-> 1]

\* The outcome of a float division by zero: no number, the call raises.
ZeroDivisionError == [n |-> 0, d |-> 0]
Raised(x) == x.d = 0

\* An operand that raised makes the whole expression raise.
FAdd(a, b) == IF Raised(a) \/ Raised(b) THEN ZeroDivisionError
              ELSE Q(a.n * b.d + b.n * a.d, a.d * b.d)
FSub(a, b) == IF Raised(a) \/ Raised(b) THEN ZeroDivisionError
              ELSE Q(a.n * b.d - b.n * a.d, a.d * b.d)
FMul(a, b) == IF Raised(a) \/ Raised(b) THEN ZeroDivisionError
              ELSE Q(a.n * b.n, a.d * b.d)
FDiv(a, b) == IF Raised(a) \/ Raised(b) \/ b.n = 0 THEN ZeroDivisionError
              ELSE Q(a.n * b.d, a.d * b.n)
FNeg(a)    == [n |-> -a.n, d |-> a.d]
FAbs(a)    == [n |-> IAbs(a.n), d |-> a.d]
FLt(a, b)  == a.n * b.d < b.n * a.d
FLe(a, b)  == a.n * b.d <= b.n * a.d
FGt(a, b)  == FLt(b, a)
FMax(a, b) == IF FLt(a, b) THEN b ELSE a
FMin(a, b) == IF FLt(b, a) THEN b ELSE a

\* int(x): truncation toward zero.
FInt(x) == IF x.n >= 0 THEN R(x.n \div x.d) ELSE R(-((-x.n) \div x.d))

\* float(f'{x:.0f}') for x >= 0: the nearest integer, a tie going to the
\* even one.
FRound0(x) ==
    IF 2 * (x.n % x.d) > x.d THEN R((x.n \div x.d) + 1)
    ELSE IF 2 * (x.n % x.d) < x.d THEN R(x.n \div x.d)
    ELSE IF (x.n \div x.d) % 2 = 0 THEN R(x.n \div x.d)
    ELSE R((x.n \div x.d) + 1)

FClamp(lo, hi, x) == FMax(lo, FMin(hi, x))

----------------------------------------------------------------------------
(* OhmsLawPhysics                                                          *)

MIN_VOLTAGE         == 1
MAX_VOLTAGE         == 50
MIN_RESISTANCE      == 1
MAX_RESISTANCE      == 100
MIN_SAFE_RESISTANCE == Q(1, 10)

OHM_PRESET_NAMES ==
    {"normal", "high_current", "low_current", "short_circuit", "open_circuit"}

OHM_PRESETS ==
    [name \in OHM_PRESET_NAMES |->
        CASE name = "normal"        -> [voltage |-> R(12), resistance |-> R(10)]
          [] name = "high_current"  -> [voltage |-> R(24), resistance |-> R(2)]
          [] name = "low_current"   -> [voltage |-> R(5),  resistance |-> R(50)]
          [] name = "short_circuit" -> [voltage |-> R(12), resistance |-> Q(1, 10)]
          [] name = "open_circuit"  -> [voltage |-> R(12), resistance |-> R(100)]]

_clamp_voltage(voltage) ==
    FMax(R(MIN_VOLTAGE), FMin(R(MAX_VOLTAGE), voltage))

_clamp_resistance_floor_safe(resistance) ==
    FMax(MIN_SAFE_RESISTANCE, FMin(R(MAX_RESISTANCE), resistance))

_clamp_resistance(resistance) ==
    FMax(R(MIN_RESISTANCE), FMin(R(MAX_RESISTANCE), resistance))

\* self._current = self._voltage / safe_resistance ; self._power = V * I
_update_calculations(self) ==
    LET safe_resistance == FMax(self.resistance, MIN_SAFE_RESISTANCE)
        i == FDiv(self.voltage, safe_resistance)
    IN  [self EXCEPT !.current = i, !.power = FMul(self.voltage, i)]

ohm_voltage_setter_stale(self, value) ==
    [self EXCEPT !.voltage = _clamp_voltage(value)]

ohm_voltage_setter(self, value) ==
    _update_calculations([self EXCEPT !.voltage = _clamp_voltage(value)])

ohm_resistance_setter(self, value) ==
    _update_calculations([self EXCEPT !.resistance = _clamp_resistance(value)])

\* The object __init__(voltage, resistance) builds.
ohm_init(voltage, resistance) ==
    _update_calculations([voltage    |-> _clamp_voltage(voltage),
                          resistance |-> _clamp_resistance(resistance),
                          current    |-> R(0),
                          power      |-> R(0)])

\* set_preset: <<returned flag, object after the call>>
ohm_set_preset_default_normal(self, preset_name) ==
    LET preset == IF preset_name \in OHM_PRESET_NAMES
                  THEN OHM_PRESETS[preset_name] ELSE OHM_PRESETS["normal"]
    IN  <<preset_name \in OHM_PRESET_NAMES,
          ohm_resistance_setter(ohm_voltage_setter(self, preset.voltage),
                                preset.resistance)>>

ohm_set_preset_raw(self, preset_name) ==
    IF preset_name \in OHM_PRESET_NAMES
    THEN LET preset == OHM_PRESETS[preset_name]
         IN  <<TRUE, _update_calculations(
                        [self EXCEPT !.voltage = preset.voltage,
                                     !.resistance = preset.resistance])>>
    ELSE <<FALSE, self>>

ohm_set_preset(self, preset_name) ==
    IF preset_name \in OHM_PRESET_NAMES
    THEN LET preset == OHM_PRESETS[preset_name]
         IN  <<TRUE,
               ohm_resistance_setter(ohm_voltage_setter(self, preset.voltage),
                                     preset.resistance)>>
    ELSE <<FALSE, self>>

HIGH_CURRENT_MSG == "WARNING: Very high current! Risk of short circuit!"
HIGH_POWER_MSG   == "WARNING: Very high power dissipation!"

\* is_dangerous: <<flag, message>>
is_dangerous_inclusive(self) ==
    IF FLe(R(20), self.current) THEN <<TRUE, HIGH_CURRENT_MSG>>
    ELSE IF FLe(R(500), self.power) THEN <<TRUE, HIGH_POWER_MSG>>
    ELSE <<FALSE, "">>

is_dangerous(self) ==
    IF FGt(self.current, R(20)) THEN <<TRUE, HIGH_CURRENT_MSG>>
    ELSE IF FGt(self.power, R(500)) THEN <<TRUE, HIGH_POWER_MSG>>
    ELSE <<FALSE, "">>

----------------------------------------------------------------------------
(* Inputs of the Ohm's law operations                                      *)

\* Each input set is a grid of values, whose length is a bound of the model,
\* together with the values at and around the limits the code tests.
MaxVoltageStep    == 2
MaxResistanceStep == 2

VoltageInputs ==
    {R(10 * k) : k \in 0..MaxVoltageStep}
    \cup {R(-5), Q(1, 2), R(1), R(5), R(12), R(21), R(24), R(40), R(50), R(51)}

ResistanceInputs ==
    {R(5 * k) : k \in 0..MaxResistanceStep}
    \cup {R(-1), Q(1, 10), Q(1, 2), R(1), R(2), R(4), R(50), R(100), R(101)}

OhmNameInputs == OHM_PRESET_NAMES \cup {"", "Normal", "presbyopia"}

OhmCall(op, arg, name, ok, msg) ==
    [op |-> op, arg |-> arg, name |-> name, ok |-> ok, msg |-> msg]

OhmInit ==
    /\ ohm = ohm_init(R(12), R(10))
    /\ ohm_call = OhmCall("__init__", R(0), "", TRUE, "")

OhmSetVoltage(value) ==
    /\ ohm' = ohm_voltage_setter(ohm, value)
    /\ ohm_call' = OhmCall("voltage", value, "", TRUE, "")
    /\ UNCHANGED <<vis, vis_call, ohm_sim, vision_sim, circuit, ohm_camera, vision_camera, help_overlay, vis_pair>>

OhmSetResistance(value) ==
    /\ ohm' = ohm_resistance_setter(ohm, value)
    /\ ohm_call' = OhmCall("resistance", value, "", TRUE, "")
    /\ UNCHANGED <<vis, vis_call, ohm_sim, vision_sim, circuit, ohm_camera, vision_camera, help_overlay, vis_pair>>

OhmSetPreset(preset_name) ==
    LET r == ohm_set_preset(ohm, preset_name)
    IN  /\ ohm' = r[2]
        /\ ohm_call' = OhmCall("set_preset", R(0), preset_name, r[1], "")
        /\ UNCHANGED <<vis, vis_call, ohm_sim, vision_sim, circuit, ohm_camera, vision_camera, help_overlay, vis_pair>>

OhmIsDangerous ==
    LET r == is_dangerous(ohm)
    IN  /\ ohm' = ohm
        /\ ohm_call' = OhmCall("is_dangerous", R(0), "", r[1], r[2])
        /\ UNCHANGED <<vis, vis_call, ohm_sim, vision_sim, circuit, ohm_camera, vision_camera, help_overlay, vis_pair>>

OhmNext ==
    \/ \E value \in VoltageInputs : OhmSetVoltage(value)
    \/ \E value \in ResistanceInputs : OhmSetResistance(value)
    \/ \E preset_name \in OhmNameInputs : OhmSetPreset(preset_name)
    \/ OhmIsDangerous

----------------------------------------------------------------------------
(* VisionPhysics                                                           *)

NORMAL_NEAR_POINT == 25
MIN_NEAR_POINT    == 10
MAX_NEAR_POINT    == 100
MIN_POWER         == -10
MAX_POWER         == 10
MIN_AGE           == 5
MAX_AGE           == 100
MIN_DISTANCE      == 5
MAX_DISTANCE      == 200
PRESBYOPIA_AGE    == 40

VIS_PRESET_NAMES ==
    {"normal", "mild_myopia", "moderate_myopia", "mild_hyperopia", "presbyopia"}

VIS_PRESETS ==
    [name \in VIS_PRESET_NAMES |->
        CASE name = "normal"          -> [near_point |-> R(25), age |-> R(25)]
          [] name = "mild_myopia"     -> [near_point |-> R(15), age |-> R(20)]
          [] name = "moderate_myopia" -> [near_point |-> R(12), age |-> R(18)]
          [] name = "mild_hyperopia"  -> [near_point |-> R(40), age |-> R(45)]
          [] name = "presbyopia"      -> [near_point |-> R(50), age |-> R(60)]]

_clamp_near_point(value) ==
    FMax(R(MIN_NEAR_POINT), FMin(R(MAX_NEAR_POINT), value))

_clamp_distance(value) ==
    FMax(R(MIN_DISTANCE), FMin(R(MAX_DISTANCE), value))

required_power_of_swapped(near_point) ==
    IF FLt(FAbs(FSub(near_point, R(NORMAL_NEAR_POINT))), Q(1, 10))
    THEN R(0)
    ELSE LET v == FDiv(FNeg(near_point), R(100))
             u == FDiv(FNeg(R(NORMAL_NEAR_POINT)), R(100))
         IN  FSub(FDiv(R(1), u), FDiv(R(1), v))

\* The value _calculate_required_power stores for a near point.
required_power_of(near_point) ==
    IF FLt(FAbs(FSub(near_point, R(NORMAL_NEAR_POINT))), Q(1, 10))
    THEN R(0)
    ELSE LET v == FDiv(FNeg(near_point), R(100))
             u == FDiv(FNeg(R(NORMAL_NEAR_POINT)), R(100))
         IN  FSub(FDiv(R(1), v), FDiv(R(1), u))

_calculate_required_power(self) ==
    [self EXCEPT !.required_power = required_power_of(self.near_point)]

vis_init(near_point, object_distance) ==
    _calculate_required_power(
        [near_point      |-> _clamp_near_point(near_point),
         object_distance |-> _clamp_distance(object_distance),
         lens_power      |-> R(0),
         age             |-> R(25),
         required_power  |-> R(0)])

vis_near_point_setter(self, value) ==
    _calculate_required_power(
        [self EXCEPT !.near_point = _clamp_near_point(value)])

vis_object_distance_setter(self, value) ==
    [self EXCEPT !.object_distance = _clamp_distance(value)]

vis_lens_power_setter(self, value) ==
    [self EXCEPT !.lens_power = FMax(R(MIN_POWER), FMin(R(MAX_POWER), value))]

vis_age_setter_stale(self, value) ==
    LET a == FMax(R(MIN_AGE), FMin(R(MAX_AGE), value))
        aged == [self EXCEPT !.age = a]
    IN  IF FGt(a, R(PRESBYOPIA_AGE))
        THEN [aged EXCEPT !.near_point =
                FAdd(R(25), FMul(FDiv(FSub(a, R(40)), R(60)), R(30)))]
        ELSE aged

vis_age_setter_unclamped(self, value) ==
    LET aged == [self EXCEPT !.age = value]
    IN  IF FGt(value, R(PRESBYOPIA_AGE))
        THEN _calculate_required_power(
                [aged EXCEPT !.near_point =
                    FAdd(R(25), FMul(FDiv(FSub(value, R(40)), R(60)), R(30)))])
        ELSE aged

vis_age_setter_from_40(self, value) ==
    LET a == FMax(R(MIN_AGE), FMin(R(MAX_AGE), value))
        aged == [self EXCEPT !.age = a]
    IN  IF FLe(R(PRESBYOPIA_AGE), a)
        THEN _calculate_required_power(
                [aged EXCEPT !.near_point =
                    FAdd(R(25), FMul(FDiv(FSub(a, R(40)), R(60)), R(30)))])
        ELSE aged

vis_age_setter(self, value) ==
    LET a == FMax(R(MIN_AGE), FMin(R(MAX_AGE), value))
        aged == [self EXCEPT !.age = a]
    IN  IF FGt(a, R(PRESBYOPIA_AGE))
        THEN LET age_factor == FDiv(FSub(a, R(40)), R(60))
             IN  _calculate_required_power(
                    [aged EXCEPT !.near_point =
                        FAdd(R(25), FMul(age_factor, R(30)))])
        ELSE aged

\* set_preset: <<returned flag, object after the call>>
vis_set_preset_default_normal(self, preset_name) ==
    LET preset == IF preset_name \in VIS_PRESET_NAMES
                  THEN VIS_PRESETS[preset_name] ELSE VIS_PRESETS["normal"]
    IN  <<preset_name \in VIS_PRESET_NAMES,
          _calculate_required_power(
              [self EXCEPT !.near_point = preset.near_point,
                           !.age = preset.age])>>

vis_set_preset_via_setters(self, preset_name) ==
    IF preset_name \in VIS_PRESET_NAMES
    THEN LET preset == VIS_PRESETS[preset_name]
         IN  <<TRUE,
               vis_age_setter(vis_near_point_setter(self, preset.near_point),
                              preset.age)>>
    ELSE <<FALSE, self>>

vis_set_preset(self, preset_name) ==
    IF preset_name \in VIS_PRESET_NAMES
    THEN LET preset == VIS_PRESETS[preset_name]
         IN  <<TRUE,
               _calculate_required_power(
                   [self EXCEPT !.near_point = preset.near_point,
                                !.age = preset.age])>>
    ELSE <<FALSE, self>>

get_vision_condition_age_first(self) ==
    IF FGt(self.age, R(45)) /\ FGt(self.near_point, R(25)) THEN "presbyopia"
    ELSE IF FLt(self.near_point, R(20)) THEN "myopia"
    ELSE IF FGt(self.near_point, R(30)) THEN "hyperopia"
    ELSE "normal"

get_vision_condition(self) ==
    IF FLt(self.near_point, R(20)) THEN "myopia"
    ELSE IF FGt(self.near_point, R(30))
         THEN IF FGt(self.age, R(45)) THEN "presbyopia" ELSE "hyperopia"
    ELSE "normal"

get_lens_type_inclusive(self) ==
    IF FLe(self.near_point, FSub(R(NORMAL_NEAR_POINT), R(2))) THEN "concave"
    ELSE IF FLe(FAdd(R(NORMAL_NEAR_POINT), R(2)), self.near_point) THEN "convex"
    ELSE "none"

get_lens_type(self) ==
    IF FLt(self.near_point, FSub(R(NORMAL_NEAR_POINT), R(2))) THEN "concave"
    ELSE IF FGt(self.near_point, FAdd(R(NORMAL_NEAR_POINT), R(2))) THEN "convex"
    ELSE "none"

\* get_effective_near_point: the value returned, or ZeroDivisionError when
\* the division (f * u) / (f + u) raises.
get_effective_near_point(self) ==
    IF FLt(FAbs(self.lens_power), Q(1, 100))
    THEN self.near_point
    ELSE IF FGt(FAbs(self.lens_power), Q(1, 100))
    THEN LET focal_length == FDiv(R(1), self.lens_power)
             u == FDiv(FNeg(R(NORMAL_NEAR_POINT)), R(100))
             f == focal_length
         IN  IF FGt(FAbs(FSub(f, u)), Q(1, 1000))
             THEN LET v == FDiv(FMul(f, u), FAdd(f, u))
                  IN  IF Raised(v) THEN ZeroDivisionError
                      ELSE FMin(R(100), FMax(R(10), FAbs(FMul(v, R(100)))))
             ELSE self.near_point
    ELSE self.near_point

get_focus_quality_no_floor(self) ==
    LET effective_np == get_effective_near_point(self)
    IN  IF Raised(effective_np) THEN ZeroDivisionError
        ELSE IF FLt(FAbs(FSub(self.object_distance, effective_np)), R(2))
        THEN R(1)
        ELSE FSub(R(1), FDiv(FAbs(FSub(self.object_distance, effective_np)),
                             R(30)))

\* get_focus_quality: the value returned, or ZeroDivisionError when
\* get_effective_near_point raises.
get_focus_quality(self) ==
    LET effective_np == get_effective_near_point(self)
    IN  IF Raised(effective_np) THEN ZeroDivisionError
        ELSE IF FLt(FAbs(FSub(self.object_distance, effective_np)), R(2))
        THEN R(1)
        ELSE LET distance_error == FAbs(FSub(self.object_distance, effective_np))
                 max_blur_distance == R(30)
             IN  FMax(R(0), FSub(R(1), FDiv(distance_error, max_blur_distance)))

----------------------------------------------------------------------------
(* Inputs of the vision operations                                         *)

\* Each input set is a grid of values, whose length is a bound of the model,
\* together with the values at and around the limits the code tests.
MaxNearPointStep == 1
MaxDistanceStep  == 1
MaxLensStep      == 1
MaxAgeStep       == 2

NearPointInputs ==
    {R(20 * k) : k \in 0..MaxNearPointStep}
    \cup {R(15), R(23), Q(499, 20), R(25), R(27), R(30), R(150)}

ObjectDistanceInputs ==
    {R(25 * k) : k \in 0..MaxDistanceStep} \cup {R(40), R(300)}

LensPowerInputs ==
    {R(4 * k) : k \in -1..MaxLensStep}
    \cup {R(-11), Q(-401, 100), Q(1, 200), R(11)}

AgeInputs ==
    {R(30 * k) : k \in 0..MaxAgeStep}
    \cup {R(40), Q(401, 10), R(41), R(120)}

VisNameInputs == VIS_PRESET_NAMES \cup {"", "short_circuit"}

\* ret is a returned number, text a returned string.
VisCall(op, arg, name, ok, ret) ==
    [op |-> op, arg |-> arg, name |-> name, ok |-> ok, ret |-> ret,
     text |-> ""]

VisCallText(op, text) ==
    [op |-> op, arg |-> R(0), name |-> "", ok |-> TRUE, ret |-> R(0),
     text |-> text]

VisInit ==
    /\ vis = vis_init(R(25), R(25))
    /\ vis_call = VisCall("__init__", R(0), "", TRUE, R(0))

VisSetNearPoint(value) ==
    /\ vis' = vis_near_point_setter(vis, value)
    /\ vis_call' = VisCall("near_point", value, "", TRUE, R(0))
    /\ UNCHANGED <<ohm, ohm_call, ohm_sim, vision_sim, circuit, ohm_camera, vision_camera, help_overlay, vis_pair>>

VisSetObjectDistance(value) ==
    /\ vis' = vis_object_distance_setter(vis, value)
    /\ vis_call' = VisCall("object_distance", value, "", TRUE, R(0))
    /\ UNCHANGED <<ohm, ohm_call, ohm_sim, vision_sim, circuit, ohm_camera, vision_camera, help_overlay, vis_pair>>

VisSetLensPower(value) ==
    /\ vis' = vis_lens_power_setter(vis, value)
    /\ vis_call' = VisCall("lens_power", value, "", TRUE, R(0))
    /\ UNCHANGED <<ohm, ohm_call, ohm_sim, vision_sim, circuit, ohm_camera, vision_camera, help_overlay, vis_pair>>

VisSetAge(value) ==
    /\ vis' = vis_age_setter(vis, value)
    /\ vis_call' = VisCall("age", value, "", TRUE, R(0))
    /\ UNCHANGED <<ohm, ohm_call, ohm_sim, vision_sim, circuit, ohm_camera, vision_camera, help_overlay, vis_pair>>

VisSetPreset(preset_name) ==
    LET r == vis_set_preset(vis, preset_name)
    IN  /\ vis' = r[2]
        /\ vis_call' = VisCall("set_preset", R(0), preset_name, r[1], R(0))
        /\ UNCHANGED <<ohm, ohm_call, ohm_sim, vision_sim, circuit, ohm_camera, vision_camera, help_overlay, vis_pair>>

\* A call that raises returns nothing: ok is FALSE and ret holds the error.
VisGetEffectiveNearPoint ==
    LET r == get_effective_near_point(vis)
    IN  /\ vis' = vis
        /\ vis_call' = VisCall("get_effective_near_point", R(0), "",
                               ~Raised(r), r)
        /\ UNCHANGED <<ohm, ohm_call, ohm_sim, vision_sim, circuit, ohm_camera, vision_camera, help_overlay, vis_pair>>

VisGetFocusQuality ==
    LET r == get_focus_quality(vis)
    IN  /\ vis' = vis
        /\ vis_call' = VisCall("get_focus_quality", R(0), "", ~Raised(r), r)
        /\ UNCHANGED <<ohm, ohm_call, ohm_sim, vision_sim, circuit, ohm_camera, vision_camera, help_overlay, vis_pair>>

VisGetVisionCondition ==
    /\ vis' = vis
    /\ vis_call' = VisCallText("get_vision_condition", get_vision_condition(vis))
    /\ UNCHANGED <<ohm, ohm_call, ohm_sim, vision_sim, circuit, ohm_camera, vision_camera, help_overlay, vis_pair>>

VisGetLensType ==
    /\ vis' = vis
    /\ vis_call' = VisCallText("get_lens_type", get_lens_type(vis))
    /\ UNCHANGED <<ohm, ohm_call, ohm_sim, vision_sim, circuit, ohm_camera, vision_camera, help_overlay, vis_pair>>

\* get_status_text evaluates get_focus_quality() while building its dict, so
\* it raises when that raises; ret is the focus quality behind the
\* 'focus_quality' entry.
VisGetStatusText ==
    LET r == get_focus_quality(vis)
    IN  /\ vis' = vis
        /\ vis_call' = VisCall("get_status_text", R(0), "", ~Raised(r), r)
        /\ UNCHANGED <<ohm, ohm_call, ohm_sim, vision_sim, circuit, ohm_camera, vision_camera, help_overlay, vis_pair>>

VisNext ==
    \/ \E value \in NearPointInputs : VisSetNearPoint(value)
    \/ \E value \in ObjectDistanceInputs : VisSetObjectDistance(value)
    \/ \E value \in LensPowerInputs : VisSetLensPower(value)
    \/ \E value \in AgeInputs : VisSetAge(value)
    \/ \E preset_name \in VisNameInputs : VisSetPreset(preset_name)
    \/ VisGetEffectiveNearPoint
    \/ VisGetFocusQuality
    \/ VisGetStatusText
    \/ VisGetVisionCondition
    \/ VisGetLensType

----------------------------------------------------------------------------
(* OhmsLawSimulation: the application object, which owns an                *)
(* OhmsLawPhysics, the two SimulationUI sliders, the warning label and     *)
(* the orbit camera (src/ohms_law_simulation/main.py, simulation/ui.py).   *)
(*                                                                         *)
(* The record ohm_sim holds                                                *)
(*   physics                          the OhmsLawPhysics object            *)
(*   voltage_slider, resistance_slider  the 'value' of each DirectSlider   *)
(*   warning_label                    the text of the warning label        *)
(*   camera_distance, camera_heading, camera_pitch                         *)
(*   call                             the last entry point that ran, and   *)
(*                                    whether is_dangerous() held before   *)
(* The camera's position is geometry computed from distance, heading and   *)
(* pitch, the value labels are formatted from the physics values and the   *)
(* Circuit's visuals are redrawn from them; none is part of the state.     *)

rotate_speed == 2

\* SimulationUI.update_displays
ohm_update_displays_keeps_warning(s) ==
    IF is_dangerous(s.physics)[1]
    THEN [s EXCEPT !.warning_label = is_dangerous(s.physics)[2]]
    ELSE s

ohm_update_displays(s) ==
    IF is_dangerous(s.physics)[1]
    THEN [s EXCEPT !.warning_label = is_dangerous(s.physics)[2]]
    ELSE [s EXCEPT !.warning_label = ""]

\* OhmsLawSimulation.on_parameters_changed, the UI's update_callback: it
\* redraws the Circuit from the physics values (the Circuit is followed on
\* its own, in the variable circuit).
on_parameters_changed(s) == s

ohm_on_voltage_change(s) ==
    on_parameters_changed(ohm_update_displays(
        [s EXCEPT !.physics = ohm_voltage_setter(@, s.voltage_slider)]))

ohm_on_resistance_change(s) ==
    on_parameters_changed(ohm_update_displays(
        [s EXCEPT !.physics = ohm_resistance_setter(@, s.resistance_slider)]))

\* self.voltage_slider['value'] = value
write_voltage_slider(s, value, runs_command) ==
    IF runs_command
    THEN ohm_on_voltage_change(
            [s EXCEPT !.voltage_slider =
                FClamp(R(MIN_VOLTAGE), R(MAX_VOLTAGE), value)])
    ELSE [s EXCEPT !.voltage_slider = value]

\* self.resistance_slider['value'] = value
write_resistance_slider(s, value, runs_command) ==
    IF runs_command
    THEN ohm_on_resistance_change(
            [s EXCEPT !.resistance_slider =
                FClamp(R(MIN_RESISTANCE), R(MAX_RESISTANCE), value)])
    ELSE [s EXCEPT !.resistance_slider = value]

\* The two slider writes that follow a change of the physics, each reading
\* the physics the write before it has left.
writes_voltage(s, runs_command) ==
    write_voltage_slider(s, s.physics.voltage, runs_command)

writes_resistance(s, runs_command) ==
    write_resistance_slider(s, s.physics.resistance, runs_command)

\* SimulationUI._on_preset_click
ohm_on_preset_click(s, preset_name, runs_command) ==
    IF ~ohm_set_preset(s.physics, preset_name)[1] THEN s
    ELSE on_parameters_changed(ohm_update_displays(
            writes_resistance(
                writes_voltage(
                    [s EXCEPT !.physics = ohm_set_preset(@, preset_name)[2]],
                    runs_command),
                runs_command)))

\* OhmsLawSimulation._quick_preset, bound to the keys 1..5
_quick_preset(s, preset_name, runs_command) ==
    IF ~ohm_set_preset(s.physics, preset_name)[1] THEN s
    ELSE on_parameters_changed(ohm_update_displays(
            writes_resistance(
                writes_voltage(
                    [s EXCEPT !.physics = ohm_set_preset(@, preset_name)[2]],
                    runs_command),
                runs_command)))

\* OhmsLawSimulation.update_simulation, the per-frame task
update_simulation(s) == ohm_update_displays(s)

reset_camera(s) ==
    [s EXCEPT !.camera_distance = R(15),
              !.camera_heading = R(0),
              !.camera_pitch = R(-20)]

\* OhmsLawSimulation.reset_simulation, bound to the key r
reset_simulation_keeps_camera(s, runs_command) ==
    on_parameters_changed(ohm_update_displays(
        writes_resistance(
            writes_voltage(
                [s EXCEPT !.physics =
                    ohm_resistance_setter(ohm_voltage_setter(@, R(12)),
                                          R(10))],
                runs_command),
            runs_command)))

reset_simulation(s, runs_command) ==
    reset_camera(on_parameters_changed(ohm_update_displays(
        writes_resistance(
            writes_voltage(
                [s EXCEPT !.physics =
                    ohm_resistance_setter(ohm_voltage_setter(@, R(12)),
                                          R(10))],
                runs_command),
            runs_command))))

zoom_in_unclamped(s) ==
    [s EXCEPT !.camera_distance = FSub(@, R(1))]

zoom_in(s) ==
    [s EXCEPT !.camera_distance = FMax(R(5), FSub(@, R(1)))]

zoom_out(s) ==
    [s EXCEPT !.camera_distance = FMin(R(30), FAdd(@, R(1)))]

\* OhmsLawSimulation.update_camera, the per-frame task.  keys is the set of
\* orbit keys held; dx, dy is the mouse's displacement since the last frame
\* while a drag is active, 0 otherwise.
orbit_mouse(s, dx, dy) ==
    IF dx = R(0) /\ dy = R(0) THEN s
    ELSE [s EXCEPT !.camera_heading = FSub(@, FMul(dx, R(100))),
                   !.camera_pitch =
                        FMax(R(-89), FMin(R(89), FAdd(@, FMul(dy, R(100)))))]

orbit_left(s, keys) ==
    IF "orbit_left" \in keys
    THEN [s EXCEPT !.camera_heading = FSub(@, R(rotate_speed))] ELSE s

orbit_right(s, keys) ==
    IF "orbit_right" \in keys
    THEN [s EXCEPT !.camera_heading = FAdd(@, R(rotate_speed))] ELSE s

orbit_up(s, keys) ==
    IF "orbit_up" \in keys
    THEN [s EXCEPT !.camera_pitch = FMin(R(89), FAdd(@, R(rotate_speed)))]
    ELSE s

orbit_down(s, keys) ==
    IF "orbit_down" \in keys
    THEN [s EXCEPT !.camera_pitch = FMax(R(-89), FSub(@, R(rotate_speed)))]
    ELSE s

update_camera(s, keys, dx, dy) ==
    orbit_down(orbit_up(orbit_right(orbit_left(orbit_mouse(s, dx, dy),
                                               keys), keys), keys), keys)

\* OhmsLawSimulation.__init__
ohm_sim_init ==
    [physics           |-> ohm_init(R(12), R(10)),
     voltage_slider    |-> ohm_init(R(12), R(10)).voltage,
     resistance_slider |-> ohm_init(R(12), R(10)).resistance,
     warning_label     |-> "",
     camera_distance   |-> R(15),
     camera_heading    |-> R(0),
     camera_pitch      |-> R(-20),
     call              |-> [op |-> "__init__", name |-> "",
                            runs_command |-> FALSE, was_dangerous |-> FALSE]]

----------------------------------------------------------------------------
(* Inputs of the OhmsLawSimulation entry points                            *)

\* The positions the sliders are dragged to: the ends of each slider's
\* range, the defaults, and a resistance at which only the power limit is
\* exceeded.
VoltageSliderInputs == {R(MIN_VOLTAGE), R(12), R(MAX_VOLTAGE)}
ResistanceSliderInputs == {R(MIN_RESISTANCE), R(4), R(10), R(MAX_RESISTANCE)}

\* The orbit keys held during a frame, and the mouse's displacement.
OrbitKeyInputs ==
    {{"orbit_left"}, {"orbit_right"}, {"orbit_up"}, {"orbit_down"}}
MouseInputs == {<<R(0), R(0)>>, <<Q(1, 50), Q(-1, 50)>>}

\* The camera is followed this many orbit steps and zoom steps away from
\* where reset_simulation leaves it.
MaxCameraSteps == 1

CameraWithinBounds(s) ==
    /\ FLe(FAbs(s.camera_heading), R(rotate_speed * MaxCameraSteps))
    /\ FLe(FAbs(FAdd(s.camera_pitch, R(20))), R(rotate_speed * MaxCameraSteps))
    /\ FLe(FAbs(FSub(s.camera_distance, R(15))), R(MaxCameraSteps))

OhmSimCall(op, name, runs_command) ==
    [op |-> op, name |-> name, runs_command |-> runs_command,
     was_dangerous |-> is_dangerous(ohm_sim.physics)[1]]

OhmSimInit ==
    ohm_sim = ohm_sim_init

\* The user drags a slider: the toolkit stores the new value and runs the
\* slider's command.
OhmSimDragVoltage(value) ==
    /\ \E after \in {ohm_on_voltage_change(
            [ohm_sim EXCEPT
                !.voltage_slider = value,
                !.call = OhmSimCall("_on_voltage_change", "", FALSE)])} :
            ohm_sim' = after
    /\ UNCHANGED <<ohm, ohm_call, vis, vis_call, vision_sim, circuit, ohm_camera, vision_camera, help_overlay, vis_pair>>

OhmSimDragResistance(value) ==
    /\ \E after \in {ohm_on_resistance_change(
            [ohm_sim EXCEPT
                !.resistance_slider = value,
                !.call = OhmSimCall("_on_resistance_change", "", FALSE)])} :
            ohm_sim' = after
    /\ UNCHANGED <<ohm, ohm_call, vis, vis_call, vision_sim, circuit, ohm_camera, vision_camera, help_overlay, vis_pair>>

OhmSimPresetClick(preset_name, runs_command) ==
    /\ \E after \in {ohm_on_preset_click(
            [ohm_sim EXCEPT
                !.call = OhmSimCall("_on_preset_click", preset_name,
                                    runs_command)],
            preset_name, runs_command)} :
            ohm_sim' = after
    /\ UNCHANGED <<ohm, ohm_call, vis, vis_call, vision_sim, circuit, ohm_camera, vision_camera, help_overlay, vis_pair>>

OhmSimQuickPreset(preset_name, runs_command) ==
    /\ \E after \in {_quick_preset(
            [ohm_sim EXCEPT
                !.call = OhmSimCall("_quick_preset", preset_name,
                                    runs_command)],
            preset_name, runs_command)} :
            ohm_sim' = after
    /\ UNCHANGED <<ohm, ohm_call, vis, vis_call, vision_sim, circuit, ohm_camera, vision_camera, help_overlay, vis_pair>>

OhmSimUpdateSimulation ==
    /\ \E after \in {update_simulation(
            [ohm_sim EXCEPT
                !.call = OhmSimCall("update_simulation", "", FALSE)])} :
            ohm_sim' = after
    /\ UNCHANGED <<ohm, ohm_call, vis, vis_call, vision_sim, circuit, ohm_camera, vision_camera, help_overlay, vis_pair>>

OhmSimResetSimulation(runs_command) ==
    /\ \E after \in {reset_simulation(
            [ohm_sim EXCEPT
                !.call = OhmSimCall("reset_simulation", "", runs_command)],
            runs_command)} :
            ohm_sim' = after
    /\ UNCHANGED <<ohm, ohm_call, vis, vis_call, vision_sim, circuit, ohm_camera, vision_camera, help_overlay, vis_pair>>

OhmSimZoomIn ==
    /\ CameraWithinBounds(zoom_in(ohm_sim))
    /\ \E after \in {zoom_in(
            [ohm_sim EXCEPT !.call = OhmSimCall("zoom_in", "", FALSE)])} :
            ohm_sim' = after
    /\ UNCHANGED <<ohm, ohm_call, vis, vis_call, vision_sim, circuit, ohm_camera, vision_camera, help_overlay, vis_pair>>

OhmSimZoomOut ==
    /\ CameraWithinBounds(zoom_out(ohm_sim))
    /\ \E after \in {zoom_out(
            [ohm_sim EXCEPT !.call = OhmSimCall("zoom_out", "", FALSE)])} :
            ohm_sim' = after
    /\ UNCHANGED <<ohm, ohm_call, vis, vis_call, vision_sim, circuit, ohm_camera, vision_camera, help_overlay, vis_pair>>

OhmSimUpdateCamera(keys, dx, dy) ==
    /\ CameraWithinBounds(update_camera(ohm_sim, keys, dx, dy))
    /\ \E after \in {update_camera(
            [ohm_sim EXCEPT !.call = OhmSimCall("update_camera", "", FALSE)],
            keys, dx, dy)} :
            ohm_sim' = after
    /\ UNCHANGED <<ohm, ohm_call, vis, vis_call, vision_sim, circuit, ohm_camera, vision_camera, help_overlay, vis_pair>>

OhmSimNext ==
    \/ \E value \in VoltageSliderInputs : OhmSimDragVoltage(value)
    \/ \E value \in ResistanceSliderInputs : OhmSimDragResistance(value)
    \/ \E preset_name \in OHM_PRESET_NAMES, runs_command \in BOOLEAN :
            OhmSimPresetClick(preset_name, runs_command)
    \/ \E preset_name \in OHM_PRESET_NAMES, runs_command \in BOOLEAN :
            OhmSimQuickPreset(preset_name, runs_command)
    \/ OhmSimUpdateSimulation
    \/ \E runs_command \in BOOLEAN : OhmSimResetSimulation(runs_command)
    \/ OhmSimZoomIn
    \/ OhmSimZoomOut
    \/ \E keys \in OrbitKeyInputs, m \in MouseInputs :
            OhmSimUpdateCamera(keys, m[1], m[2])

----------------------------------------------------------------------------
(* VisionSimulation: the application object, which owns a VisionPhysics,   *)
(* the four VisionUI sliders and the VisionScene                           *)
(* (src/vision_simulation/main.py, simulation/ui.py,                       *)
(* simulation/optical_components.py).                                      *)
(*                                                                         *)
(* The record vision_sim holds                                             *)
(*   physics                      the VisionPhysics object                 *)
(*   near_point_slider, ...       the 'value' of each DirectSlider         *)
(*   lens_type, lens_hidden       the CorrectiveLens of the scene          *)
(*   focal_color, ray_color       the colours of the eye's focal point and *)
(*                                of the light rays                        *)
(*   raised                       an exception left a handler: the event   *)
(*                                loop has ended                           *)
(*   call                         the last entry point that ran            *)
(* Positions and ray segments are geometry computed from these values and  *)
(* the text labels are formatted from get_status_text(); neither is part   *)
(* of the state.                                                           *)
(*                                                                         *)
(* Writing slider['value'] from the program hands the value to the         *)
(* toolkit.  Whether the toolkit runs the slider's command before the      *)
(* write returns is the toolkit's behaviour, not this program's: both      *)
(* outcomes are modelled, chosen by the parameter runs_command.  When the  *)
(* command runs, the toolkit has first clamped the value to the slider's   *)
(* range.                                                                  *)

GREEN  == "green"     \* (0.3, 1.0, 0.3)
YELLOW == "yellow"    \* (1.0, 1.0, 0.3)
RED    == "red"       \* (1.0, 0.3, 0.3)

VisionRaise(s) == [s EXCEPT !.raised = TRUE]

\* VisionScene._update_light_rays, with a physics engine attached: the focal
\* point is coloured from get_focus_quality(), a fraction in 0..1, compared
\* with 80 and 50.
_update_light_rays(s) ==
    IF s.raised THEN s
    ELSE IF Raised(get_effective_near_point(s.physics)) THEN VisionRaise(s)
    ELSE [s EXCEPT !.focal_color =
            IF FGt(get_focus_quality(s.physics), R(80)) THEN GREEN
            ELSE IF FGt(get_focus_quality(s.physics), R(50)) THEN YELLOW
            ELSE RED]

update_lens_power(s, power, lens_type) ==
    IF s.raised THEN s
    ELSE _update_light_rays(
            [s EXCEPT !.lens_type = lens_type,
                      !.lens_hidden = FLt(FAbs(power), Q(1, 10))])

update_corrective_lens(s, power, distance) ==
    IF s.raised THEN s
    ELSE _update_light_rays(
            [s EXCEPT !.lens_hidden = FLt(FAbs(power), Q(1, 10))])

update_object_distance(s, distance) ==
    IF s.raised THEN s ELSE _update_light_rays(s)

\* VisionScene.update_light_rays(focus_quality): focus_quality is a
\* percentage.
update_light_rays(s, focus_quality) ==
    IF s.raised THEN s
    ELSE IF FGt(focus_quality, R(80))
         THEN [s EXCEPT !.focal_color = GREEN, !.ray_color = GREEN]
    ELSE IF FGt(focus_quality, R(50))
         THEN [s EXCEPT !.focal_color = YELLOW, !.ray_color = YELLOW]
    ELSE [s EXCEPT !.focal_color = RED, !.ray_color = RED]

\* VisionSimulation.update_scene (on_physics_update calls it): get_status_text
\* raises when get_focus_quality does; status['focus_quality'] is the
\* percentage printed with no decimals.
update_scene(s) ==
    IF s.raised THEN s
    ELSE IF Raised(get_focus_quality(s.physics)) THEN VisionRaise(s)
    ELSE update_light_rays(
            update_object_distance(
                update_corrective_lens(s, s.physics.lens_power, Q(-5, 2)),
                FDiv(FNeg(s.physics.object_distance), R(10))),
            FRound0(FMul(get_focus_quality(s.physics), R(100))))

\* VisionUI.update_displays: the labels are formatted from get_status_text().
vis_update_displays(s) ==
    IF s.raised THEN s
    ELSE IF Raised(get_focus_quality(s.physics)) THEN VisionRaise(s)
    ELSE s

_on_near_point_change(s) ==
    IF s.raised THEN s
    ELSE update_scene(vis_update_displays(
            [s EXCEPT !.physics =
                vis_near_point_setter(@, s.near_point_slider)]))

_on_distance_change(s) ==
    IF s.raised THEN s
    ELSE update_scene(vis_update_displays(
            [s EXCEPT !.physics =
                vis_object_distance_setter(@, s.distance_slider)]))

_on_power_change(s) ==
    IF s.raised THEN s
    ELSE update_scene(vis_update_displays(
            [s EXCEPT !.physics =
                vis_lens_power_setter(@, s.power_slider)]))

\* self.near_point_slider['value'] = value
write_near_point_slider(s, value, runs_command) ==
    IF s.raised THEN s
    ELSE IF runs_command
    THEN _on_near_point_change(
            [s EXCEPT !.near_point_slider =
                FClamp(R(MIN_NEAR_POINT), R(MAX_NEAR_POINT), value)])
    ELSE [s EXCEPT !.near_point_slider = value]

\* self.distance_slider['value'] = value
write_distance_slider(s, value, runs_command) ==
    IF s.raised THEN s
    ELSE IF runs_command
    THEN _on_distance_change(
            [s EXCEPT !.distance_slider = FClamp(R(10), R(100), value)])
    ELSE [s EXCEPT !.distance_slider = value]

\* self.power_slider['value'] = value
write_power_slider(s, value, runs_command) ==
    IF s.raised THEN s
    ELSE IF runs_command
    THEN _on_power_change(
            [s EXCEPT !.power_slider =
                FClamp(R(MIN_POWER), R(MAX_POWER), value)])
    ELSE [s EXCEPT !.power_slider = value]

_on_age_change(s, runs_command) ==
    IF s.raised THEN s
    ELSE update_scene(vis_update_displays(
            write_near_point_slider(
                [s EXCEPT !.physics = vis_age_setter(@, FInt(s.age_slider))],
                vis_age_setter(s.physics, FInt(s.age_slider)).near_point,
                runs_command)))

\* self.age_slider['value'] = value
write_age_slider(s, value, runs_command) ==
    IF s.raised THEN s
    ELSE IF runs_command
    THEN _on_age_change(
            [s EXCEPT !.age_slider = FClamp(R(10), R(80), value)],
            runs_command)
    ELSE [s EXCEPT !.age_slider = value]

\* The four slider writes of _on_preset_click, each reading the physics the
\* writes before it have left.
preset_writes_near_point(s, runs_command) ==
    write_near_point_slider(s, s.physics.near_point, runs_command)

preset_writes_age(s, runs_command) ==
    write_age_slider(s, s.physics.age, runs_command)

preset_writes_distance(s, runs_command) ==
    write_distance_slider(s, s.physics.object_distance, runs_command)

preset_sets_lens_power(s) ==
    IF s.raised THEN s
    ELSE [s EXCEPT !.physics = vis_lens_power_setter(@, R(0))]

vis_on_preset_click(s, preset_name, runs_command) ==
    IF s.raised \/ ~vis_set_preset(s.physics, preset_name)[1] THEN s
    ELSE update_scene(vis_update_displays(preset_sets_lens_power(
            write_power_slider(
                preset_writes_distance(
                    preset_writes_age(
                        preset_writes_near_point(
                            [s EXCEPT !.physics =
                                vis_set_preset(@, preset_name)[2]],
                            runs_command),
                        runs_command),
                    runs_command),
                R(0), runs_command))))

\* VisionSimulation.__init__: VisionPhysics(), VisionScene, VisionUI with the
\* sliders at the physics values, then update_scene() and update_displays().
vision_sim_init ==
    vis_update_displays(update_scene(
        [physics           |-> vis_init(R(25), R(25)),
         near_point_slider |-> vis_init(R(25), R(25)).near_point,
         distance_slider   |-> vis_init(R(25), R(25)).object_distance,
         power_slider      |-> vis_init(R(25), R(25)).lens_power,
         age_slider        |-> vis_init(R(25), R(25)).age,
         lens_type         |-> "none",
         lens_hidden       |-> FALSE,
         focal_color       |-> "bright yellow",
         ray_color         |-> "pale yellow",
         raised            |-> FALSE,
         call              |-> [op |-> "__init__", name |-> "",
                                runs_command |-> FALSE]]))

----------------------------------------------------------------------------
(* Inputs of the VisionSimulation entry points                             *)

\* The positions a slider is dragged to.  The distance slider is followed
\* over a grid of its range, whose length is a bound of the model; the
\* others over the values at which the handlers change branch.
MaxDistanceSliderStep == 0

NearPointSliderInputs == {R(MIN_NEAR_POINT), R(25)}
DistanceSliderInputs ==
    {R(10 + 45 * k) : k \in 0..MaxDistanceSliderStep} \cup {R(25)}
PowerSliderInputs == {R(0), R(2), R(4)}
AgeSliderInputs == {R(10), Q(91, 2)}

VisionSimCall(op, name, runs_command) ==
    [op |-> op, name |-> name, runs_command |-> runs_command]

VisionSimInit ==
    vision_sim = vision_sim_init

\* The user drags a slider: the toolkit stores the new value and runs the
\* slider's command.
VisionSimDragNearPoint(value) ==
    /\ ~vision_sim.raised
    /\ \E after \in {_on_near_point_change(
            [vision_sim EXCEPT
                !.near_point_slider = value,
                !.call = VisionSimCall("_on_near_point_change", "", FALSE)])} :
            vision_sim' = after
    /\ UNCHANGED <<ohm, ohm_call, vis, vis_call, ohm_sim, circuit, ohm_camera, vision_camera, help_overlay, vis_pair>>

VisionSimDragDistance(value) ==
    /\ ~vision_sim.raised
    /\ \E after \in {_on_distance_change(
            [vision_sim EXCEPT
                !.distance_slider = value,
                !.call = VisionSimCall("_on_distance_change", "", FALSE)])} :
            vision_sim' = after
    /\ UNCHANGED <<ohm, ohm_call, vis, vis_call, ohm_sim, circuit, ohm_camera, vision_camera, help_overlay, vis_pair>>

VisionSimDragPower(value) ==
    /\ ~vision_sim.raised
    /\ \E after \in {_on_power_change(
            [vision_sim EXCEPT
                !.power_slider = value,
                !.call = VisionSimCall("_on_power_change", "", FALSE)])} :
            vision_sim' = after
    /\ UNCHANGED <<ohm, ohm_call, vis, vis_call, ohm_sim, circuit, ohm_camera, vision_camera, help_overlay, vis_pair>>

VisionSimDragAge(value, runs_command) ==
    /\ ~vision_sim.raised
    /\ \E after \in {_on_age_change(
            [vision_sim EXCEPT
                !.age_slider = value,
                !.call = VisionSimCall("_on_age_change", "", runs_command)],
            runs_command)} :
            vision_sim' = after
    /\ UNCHANGED <<ohm, ohm_call, vis, vis_call, ohm_sim, circuit, ohm_camera, vision_camera, help_overlay, vis_pair>>

\* The user clicks one of the five preset buttons.
VisionSimPresetClick(preset_name, runs_command) ==
    /\ ~vision_sim.raised
    /\ \E after \in {vis_on_preset_click(
            [vision_sim EXCEPT
                !.call = VisionSimCall("_on_preset_click", preset_name,
                                       runs_command)],
            preset_name, runs_command)} :
            vision_sim' = after
    /\ UNCHANGED <<ohm, ohm_call, vis, vis_call, ohm_sim, circuit, ohm_camera, vision_camera, help_overlay, vis_pair>>

\* The scene's public updates, called on their own with the values of the
\* physics.
VisionSceneUpdateLensPower ==
    /\ ~vision_sim.raised
    /\ \E after \in {update_lens_power(
            [vision_sim EXCEPT
                !.call = VisionSimCall("update_lens_power", "", FALSE)],
            vision_sim.physics.lens_power,
            get_lens_type(vision_sim.physics))} :
            vision_sim' = after
    /\ UNCHANGED <<ohm, ohm_call, vis, vis_call, ohm_sim, circuit, ohm_camera, vision_camera, help_overlay, vis_pair>>

VisionSceneUpdateCorrectiveLens ==
    /\ ~vision_sim.raised
    /\ \E after \in {update_corrective_lens(
            [vision_sim EXCEPT
                !.call = VisionSimCall("update_corrective_lens", "", FALSE)],
            vision_sim.physics.lens_power, Q(-5, 2))} :
            vision_sim' = after
    /\ UNCHANGED <<ohm, ohm_call, vis, vis_call, ohm_sim, circuit, ohm_camera, vision_camera, help_overlay, vis_pair>>

VisionSceneUpdateObjectDistance ==
    /\ ~vision_sim.raised
    /\ \E after \in {update_object_distance(
            [vision_sim EXCEPT
                !.call = VisionSimCall("update_object_distance", "", FALSE)],
            FDiv(FNeg(vision_sim.physics.object_distance), R(10)))} :
            vision_sim' = after
    /\ UNCHANGED <<ohm, ohm_call, vis, vis_call, ohm_sim, circuit, ohm_camera, vision_camera, help_overlay, vis_pair>>

VisionSimNext ==
    \/ \E value \in NearPointSliderInputs : VisionSimDragNearPoint(value)
    \/ \E value \in DistanceSliderInputs : VisionSimDragDistance(value)
    \/ \E value \in PowerSliderInputs : VisionSimDragPower(value)
    \/ \E value \in AgeSliderInputs, runs_command \in BOOLEAN :
            VisionSimDragAge(value, runs_command)
    \/ \E preset_name \in VIS_PRESET_NAMES, runs_command \in BOOLEAN :
            VisionSimPresetClick(preset_name, runs_command)
    \/ VisionSceneUpdateLensPower
    \/ VisionSceneUpdateCorrectiveLens
    \/ VisionSceneUpdateObjectDistance

----------------------------------------------------------------------------
(* Circuit: the circuit visualisation OhmsLawSimulation owns               *)
(* (src/ohms_law_simulation/simulation/circuit.py), followed on its own.   *)
(*                                                                         *)
(* The record circuit holds                                                *)
(*   battery_indicator   the brightness of the battery's indicator         *)
(*   resistor_body       the green component of the resistor body's colour *)
(*   electrons           for each of the electrons 0..14:                  *)
(*       brightness          of its sphere                                 *)
(*       animation_sequence  the Sequence it holds, NoSequence for None:   *)
(*                           the points it runs through and the duration   *)
(*                           of each segment                               *)
(*       looping             the number of its sequences that are playing  *)
(*   call                the last call, and the number of update calls     *)
(* Sequence.loop() starts a sequence playing, Sequence.finish() ends it.   *)

NUM_ELECTRONS == 15

Point3(x, y, z) == <<x, y, z>>

\* Circuit._create_electron_path
electron_path ==
    << Point3(Q(-5, 2), R(0), Q(1, 2)),
       Point3(R(-1), R(0), Q(1, 2)),
       Point3(R(0), R(0), Q(1, 2)),
       Point3(R(1), R(0), Q(1, 2)),
       Point3(Q(12, 5), R(0), Q(1, 2)),
       Point3(Q(12, 5), R(0), Q(3, 10)),
       Point3(Q(12, 5), R(0), R(0)),
       Point3(Q(12, 5), R(0), Q(-3, 10)),
       Point3(Q(12, 5), R(0), Q(-1, 2)),
       Point3(R(1), R(0), Q(-1, 2)),
       Point3(R(0), R(0), Q(-1, 2)),
       Point3(R(-1), R(0), Q(-1, 2)),
       Point3(Q(-5, 2), R(0), Q(-1, 2)),
       Point3(Q(-5, 2), R(0), Q(-3, 10)),
       Point3(Q(-5, 2), R(0), R(0)),
       Point3(Q(-5, 2), R(0), Q(3, 10)),
       Point3(Q(-5, 2), R(0), Q(1, 2)) >>

NoSequence == [path |-> <<>>, duration_per_segment |-> R(0)]

\* Electron.__init__
electron_init ==
    [brightness |-> R(1), animation_sequence |-> NoSequence, looping |-> 0]

\* Electron.update_color
update_color(e, intensity) ==
    [e EXCEPT !.brightness = FAdd(Q(3, 10), FMul(Q(7, 10), intensity))]

\* if self.animation_sequence: self.animation_sequence.finish()
finish_existing(e) ==
    IF e.animation_sequence # NoSequence
    THEN [e EXCEPT !.looping = @ - 1] ELSE e

\* Electron.animate_along_path
animate_along_path_no_finish(e, path_points, speed_factor) ==
    IF Len(path_points) < 2 THEN e
    ELSE [e EXCEPT
            !.animation_sequence =
                [path |-> path_points,
                 duration_per_segment |-> FDiv(Q(1, 10), speed_factor)],
            !.looping = @ + 1]

animate_along_path(e, path_points, speed_factor) ==
    IF Len(path_points) < 2 THEN e
    ELSE [finish_existing(e) EXCEPT
            !.animation_sequence =
                [path |-> path_points,
                 duration_per_segment |-> FDiv(Q(1, 10), speed_factor)],
            !.looping = @ + 1]

\* start_index = int((i / len(self.electrons)) * len(self.electron_path))
start_index(i) ==
    FInt(FMul(Q(i, NUM_ELECTRONS), R(Len(electron_path)))).n

\* self.electron_path[start_index:] + self.electron_path[:start_index]
rotated_path(start) ==
    SubSeq(electron_path, start + 1, Len(electron_path))
        \o SubSeq(electron_path, 1, start)

\* Circuit._update_electron_flow
_update_electron_flow(c, current) ==
    [c EXCEPT !.electrons =
        [i \in 0..(NUM_ELECTRONS - 1) |->
            animate_along_path(
                update_color(c.electrons[i], FMin(FDiv(current, R(50)), R(1))),
                rotated_path(start_index(i)),
                FAdd(Q(1, 2), FMul(current, Q(3, 10))))]]

\* Battery.update_voltage_visual
update_voltage_visual(c, voltage, max_voltage) ==
    [c EXCEPT !.battery_indicator = FDiv(voltage, max_voltage)]

\* Resistor.update_resistance_visual
update_resistance_visual(c, resistance, max_resistance) ==
    [c EXCEPT !.resistor_body =
        FMul(Q(2, 5),
             FSub(R(1), FMul(FDiv(resistance, max_resistance), Q(1, 2))))]

\* Circuit.update
circuit_update(c, voltage, resistance, current, max_voltage, max_resistance) ==
    _update_electron_flow(
        update_resistance_visual(
            update_voltage_visual(c, voltage, max_voltage),
            resistance, max_resistance),
        current)

\* Circuit.__init__
circuit_init ==
    [battery_indicator |-> R(1),
     resistor_body     |-> Q(2, 5),
     electrons         |-> [i \in 0..(NUM_ELECTRONS - 1) |-> electron_init],
     call              |-> [op |-> "__init__", current |-> R(0),
                            updates |-> 0]]

\* The update calls that are followed.
MaxCircuitUpdates == 2

CircuitInit ==
    circuit = circuit_init

\* OhmsLawSimulation.on_parameters_changed calls Circuit.update with the
\* voltage, resistance and current of its physics, here the physics
\* OhmsLawPhysics(voltage, resistance) has.
CircuitUpdate(voltage, resistance) ==
    /\ circuit.call.updates < MaxCircuitUpdates
    /\ \E after \in {circuit_update(
            [circuit EXCEPT
                !.call = [op |-> "update",
                          current |-> ohm_init(voltage, resistance).current,
                          updates |-> @.updates + 1]],
            ohm_init(voltage, resistance).voltage,
            ohm_init(voltage, resistance).resistance,
            ohm_init(voltage, resistance).current,
            R(MAX_VOLTAGE), R(MAX_RESISTANCE))} :
            circuit' = after
    /\ UNCHANGED <<ohm, ohm_call, vis, vis_call, ohm_sim, vision_sim, ohm_camera, vision_camera, help_overlay, vis_pair>>

CircuitNext ==
    \E voltage \in VoltageInputs, resistance \in ResistanceInputs :
        CircuitUpdate(voltage, resistance)

----------------------------------------------------------------------------
(* The camera controls of OhmsLawSimulation (src/ohms_law_simulation/      *)
(* main.py), followed on their own over their whole range: the held keys,  *)
(* the mouse drag, the orbit parameters and the camera's position.  The    *)
(* position is a term: the orbital position of (distance, heading, pitch)  *)
(* it was last set to, followed by the free moves made since; the          *)
(* trigonometry of the orbital position and the camera matrix that gives   *)
(* the forward and right vectors are not evaluated.                        *)

ORBIT_KEYS == {"orbit_left", "orbit_right", "orbit_up", "orbit_down"}

\* the six keys _update_camera_position tests, in update_camera's order
MOVEMENT_KEY_ORDER ==
    <<"forward", "backward", "left", "right", "up", "down">>

MOVEMENT_KEYS == {MOVEMENT_KEY_ORDER[i] : i \in DOMAIN MOVEMENT_KEY_ORDER}

IsMovementKeyHeld(key, keys) == key \in keys

\* x, y, z of _update_camera_position
orbital_position(c) ==
    [orbit |-> <<c.camera_distance, c.camera_heading, c.camera_pitch>>,
     moves |-> <<>>]

\* OhmsLawSimulation._update_camera_position
_update_camera_position_always(c) ==
    [c EXCEPT !.camera_pos = orbital_position(c)]

_update_camera_position(c) ==
    IF c.keys \cap MOVEMENT_KEYS = {}
    THEN [c EXCEPT !.camera_pos = orbital_position(c)]
    ELSE c

\* OhmsLawSimulation.set_key
set_key(c, key, value) ==
    [c EXCEPT !.keys = IF value THEN @ \cup {key} ELSE @ \ {key}]

\* OhmsLawSimulation.start_mouse_drag / stop_mouse_drag
start_mouse_drag(c, has_mouse, mouse_x, mouse_y) ==
    IF has_mouse
    THEN [c EXCEPT !.mouse_drag_active = TRUE,
                   !.last_mouse_x = mouse_x,
                   !.last_mouse_y = mouse_y]
    ELSE c

stop_mouse_drag(c) == [c EXCEPT !.mouse_drag_active = FALSE]

\* update_camera, the WASD free movement: one setPos per held key
free_movement(c) ==
    [c EXCEPT !.camera_pos.moves =
        @ \o SelectSeq(MOVEMENT_KEY_ORDER,
                       LAMBDA key : IsMovementKeyHeld(key, c.keys))]

\* update_camera, the mouse drag: the displacement since the last frame
drag_dx(c, has_mouse, mouse_x) ==
    IF c.mouse_drag_active /\ has_mouse
    THEN FSub(mouse_x, c.last_mouse_x) ELSE R(0)

drag_dy(c, has_mouse, mouse_y) ==
    IF c.mouse_drag_active /\ has_mouse
    THEN FSub(mouse_y, c.last_mouse_y) ELSE R(0)

remember_mouse(c, has_mouse, mouse_x, mouse_y) ==
    IF c.mouse_drag_active /\ has_mouse
    THEN [c EXCEPT !.last_mouse_x = mouse_x, !.last_mouse_y = mouse_y]
    ELSE c

\* OhmsLawSimulation.update_camera, the whole per-frame task
update_camera_task(c, has_mouse, mouse_x, mouse_y) ==
    _update_camera_position(free_movement(
        remember_mouse(
            update_camera(c, c.keys,
                          drag_dx(c, has_mouse, mouse_x),
                          drag_dy(c, has_mouse, mouse_y)),
            has_mouse, mouse_x, mouse_y)))

\* OhmsLawSimulation.__init__, the camera's part
ohm_camera_init ==
    _update_camera_position(
        [camera_distance |-> R(15), camera_heading |-> R(0),
         camera_pitch |-> R(-20),
         mouse_drag_active |-> FALSE,
         last_mouse_x |-> R(0), last_mouse_y |-> R(0),
         keys |-> {},
         camera_pos |-> [orbit |-> <<>>, moves |-> <<>>],
         call |-> [op |-> "__init__", frames |-> 0,
                   was_distance |-> R(0), was_pitch |-> R(0),
                   was_moved |-> FALSE]])

\* Inputs: the mouse positions of the window, -1..1 on both axes
MousePositions == {<<R(-1), R(-1)>>, <<R(1), R(1)>>}

\* Inputs: the sets of keys held at once
HeldKeyInputs ==
    {{}} \cup {{key} : key \in ORBIT_KEYS \cup MOVEMENT_KEYS}
         \cup {{"orbit_up", "orbit_down"}, {"forward", "backward"},
                {"left", "up"}}

\* Bounds: the frames followed, with the orbit controls and with the
\* movement keys
MaxFrames == 1
MaxMoveFrames == 2

\* Bound: the zoom steps from the default distance followed with the
\* movement keys
MaxMoveZoom == 1

MayZoomInWhileMoving ==
    FLt(R(15 - MaxMoveZoom), ohm_camera.camera_distance)

MayZoomOutWhileMoving ==
    FLt(ohm_camera.camera_distance, R(15 + MaxMoveZoom))

\* the last call: the handler, the frames so far, and what the handler
\* found: the distance for a zoom, the pitch and whether the camera had moved
\* freely for a frame
OhmCameraCall(c, op) ==
    [c EXCEPT !.call = [op |-> op,
                        frames |-> IF op = "update_camera"
                                   THEN @.frames + 1 ELSE @.frames,
                        was_distance |->
                            IF op \in {"zoom_in", "zoom_out"}
                            THEN ohm_camera.camera_distance ELSE R(0),
                        was_pitch |->
                            IF op = "update_camera"
                            THEN ohm_camera.camera_pitch ELSE R(0),
                        was_moved |->
                            /\ op = "update_camera"
                            /\ ohm_camera.camera_pos.moves # <<>>]]

OhmCameraInit == ohm_camera = ohm_camera_init

OhmCameraSetKey(key, value) ==
    /\ set_key(ohm_camera, key, value).keys \in HeldKeyInputs
    /\ \E after \in {OhmCameraCall(set_key(ohm_camera, key, value),
                                   "set_key")} :
            ohm_camera' = after
    /\ UNCHANGED <<ohm, ohm_call, vis, vis_call, ohm_sim, vision_sim, circuit, vision_camera, help_overlay, vis_pair>>

OhmCameraStartMouseDrag(has_mouse, mouse) ==
    /\ \E after \in {OhmCameraCall(
                        start_mouse_drag(ohm_camera, has_mouse,
                                         mouse[1], mouse[2]),
                        "start_mouse_drag")} :
            ohm_camera' = after
    /\ UNCHANGED <<ohm, ohm_call, vis, vis_call, ohm_sim, vision_sim, circuit, vision_camera, help_overlay, vis_pair>>

OhmCameraStopMouseDrag ==
    /\ \E after \in {OhmCameraCall(stop_mouse_drag(ohm_camera),
                                   "stop_mouse_drag")} :
            ohm_camera' = after
    /\ UNCHANGED <<ohm, ohm_call, vis, vis_call, ohm_sim, vision_sim, circuit, vision_camera, help_overlay, vis_pair>>

OhmCameraUpdateCamera(has_mouse, mouse, max_frames) ==
    /\ ohm_camera.call.frames < max_frames
    /\ \E after \in {OhmCameraCall(
                        update_camera_task(ohm_camera, has_mouse,
                                           mouse[1], mouse[2]),
                        "update_camera")} :
            ohm_camera' = after
    /\ UNCHANGED <<ohm, ohm_call, vis, vis_call, ohm_sim, vision_sim, circuit, vision_camera, help_overlay, vis_pair>>

OhmCameraZoomIn ==
    /\ \E after \in {OhmCameraCall(
                        _update_camera_position(zoom_in(ohm_camera)),
                        "zoom_in")} :
            ohm_camera' = after
    /\ UNCHANGED <<ohm, ohm_call, vis, vis_call, ohm_sim, vision_sim, circuit, vision_camera, help_overlay, vis_pair>>

OhmCameraZoomOut ==
    /\ \E after \in {OhmCameraCall(
                        _update_camera_position(zoom_out(ohm_camera)),
                        "zoom_out")} :
            ohm_camera' = after
    /\ UNCHANGED <<ohm, ohm_call, vis, vis_call, ohm_sim, vision_sim, circuit, vision_camera, help_overlay, vis_pair>>

\* reset_simulation, the camera's part (the physics' part is in SpecOhmSim)
OhmCameraResetSimulation ==
    /\ \E after \in {OhmCameraCall(
                        _update_camera_position(reset_camera(ohm_camera)),
                        "reset_simulation")} :
            ohm_camera' = after
    /\ UNCHANGED <<ohm, ohm_call, vis, vis_call, ohm_sim, vision_sim, circuit, vision_camera, help_overlay, vis_pair>>

\* the orbit controls: arrow keys, mouse drag, zoom, reset
OhmCameraNext ==
    \/ \E key \in ORBIT_KEYS, value \in BOOLEAN : OhmCameraSetKey(key, value)
    \/ \E has_mouse \in BOOLEAN, mouse \in MousePositions :
            OhmCameraStartMouseDrag(has_mouse, mouse)
    \/ OhmCameraStopMouseDrag
    \/ \E has_mouse \in BOOLEAN, mouse \in MousePositions :
            OhmCameraUpdateCamera(has_mouse, mouse, MaxFrames)
    \/ OhmCameraZoomIn
    \/ OhmCameraZoomOut
    \/ OhmCameraResetSimulation

\* the free movement: W, S, A, D, Q, E held and released between frames,
\* zoom and reset; the mouse is outside the window
OhmCameraMoveNext ==
    \/ \E key \in MOVEMENT_KEYS, value \in BOOLEAN :
            OhmCameraSetKey(key, value)
    \/ OhmCameraUpdateCamera(FALSE, <<R(0), R(0)>>, MaxMoveFrames)
    \/ MayZoomInWhileMoving /\ OhmCameraZoomIn
    \/ MayZoomOutWhileMoving /\ OhmCameraZoomOut
    \/ OhmCameraResetSimulation

----------------------------------------------------------------------------
(* The orbit controls of VisionSimulation's camera                         *)
(* (src/vision_simulation/main.py), followed on their own over their whole *)
(* range: distance, heading, pitch and the mouse drag.  The camera's       *)
(* position and the WASD velocity, which none of the three parameters      *)
(* depends on, are left out.                                               *)

\* VisionSimulation.rotate_camera, bound to the arrow keys with steps of 5
rotate_camera_unclamped(c, heading_change, pitch_change) ==
    [c EXCEPT !.camera_heading = FAdd(@, R(heading_change)),
              !.camera_pitch = FAdd(@, R(pitch_change))]

rotate_camera(c, heading_change, pitch_change) ==
    [c EXCEPT !.camera_heading = FAdd(@, R(heading_change)),
              !.camera_pitch =
                    FMax(R(-89), FMin(R(89), FAdd(@, R(pitch_change))))]

\* VisionSimulation.start_mouse_drag / stop_mouse_drag
vis_start_mouse_drag(c, has_mouse, mouse_x, mouse_y) ==
    IF has_mouse
    THEN [c EXCEPT !.mouse_dragging = TRUE,
                   !.last_mouse_x = mouse_x,
                   !.last_mouse_y = mouse_y]
    ELSE c

vis_stop_mouse_drag(c) == [c EXCEPT !.mouse_dragging = FALSE]

\* VisionSimulation.zoom_camera, bound to the wheel with delta -1.0 / 1.0
zoom_camera(c, delta) ==
    [c EXCEPT !.camera_distance =
                    FMax(R(5), FMin(R(40), FAdd(@, R(delta))))]

\* VisionSimulation.update_camera, the per-frame task: the mouse drag
vis_update_camera(c, has_mouse, mouse_x, mouse_y) ==
    IF c.mouse_dragging /\ has_mouse
    THEN [c EXCEPT !.camera_heading =
                        FSub(@, FMul(FSub(mouse_x, c.last_mouse_x), R(80))),
                   !.camera_pitch =
                        FMax(R(-89), FMin(R(89),
                            FAdd(@, FMul(FSub(mouse_y, c.last_mouse_y),
                                         R(80))))),
                   !.last_mouse_x = mouse_x,
                   !.last_mouse_y = mouse_y]
    ELSE c

\* VisionSimulation.__init__, the camera's part
vision_camera_init ==
    [camera_distance |-> R(18), camera_heading |-> R(25),
     camera_pitch |-> R(15),
     mouse_dragging |-> FALSE,
     last_mouse_x |-> R(0), last_mouse_y |-> R(0),
     call |-> [op |-> "__init__", frames |-> 0, rotations |-> 0,
               was_distance |-> R(0), was_pitch |-> R(0)]]

\* Inputs: the arrow keys' steps and the wheel's deltas
RotateInputs == {<<-5, 0>>, <<5, 0>>, <<0, 5>>, <<0, -5>>}
ZoomInputs == {-1, 1}

\* Bounds: the frames that moved the camera and the arrow-key steps
\* followed
MaxVisionFrames == 3
MaxRotations == 1

\* the last call: the handler, the frames that moved the camera and the
\* arrow-key steps so far, and what the handler found: the distance for a
\* zoom, the pitch for a rotation
VisionCameraCall(c, op) ==
    [c EXCEPT !.call = [op |-> op,
                        frames |-> IF op = "update_camera"
                                        /\ c # vision_camera
                                   THEN @.frames + 1 ELSE @.frames,
                        rotations |-> IF op = "rotate_camera"
                                      THEN @.rotations + 1 ELSE @.rotations,
                        was_distance |->
                            IF op = "zoom_camera"
                            THEN vision_camera.camera_distance ELSE R(0),
                        was_pitch |->
                            IF op = "rotate_camera"
                            THEN vision_camera.camera_pitch ELSE R(0)]]

VisionCameraInit == vision_camera = vision_camera_init

VisionCameraRotate(heading_change, pitch_change) ==
    /\ vision_camera.call.rotations < MaxRotations
    /\ \E after \in {VisionCameraCall(
                        rotate_camera(vision_camera, heading_change,
                                      pitch_change),
                        "rotate_camera")} :
            vision_camera' = after
    /\ UNCHANGED <<ohm, ohm_call, vis, vis_call, ohm_sim, vision_sim, circuit, ohm_camera, help_overlay, vis_pair>>

VisionCameraStartMouseDrag(has_mouse, mouse) ==
    /\ \E after \in {VisionCameraCall(
                        vis_start_mouse_drag(vision_camera, has_mouse,
                                             mouse[1], mouse[2]),
                        "start_mouse_drag")} :
            vision_camera' = after
    /\ UNCHANGED <<ohm, ohm_call, vis, vis_call, ohm_sim, vision_sim, circuit, ohm_camera, help_overlay, vis_pair>>

VisionCameraStopMouseDrag ==
    /\ \E after \in {VisionCameraCall(vis_stop_mouse_drag(vision_camera),
                                      "stop_mouse_drag")} :
            vision_camera' = after
    /\ UNCHANGED <<ohm, ohm_call, vis, vis_call, ohm_sim, vision_sim, circuit, ohm_camera, help_overlay, vis_pair>>

VisionCameraZoom(delta) ==
    /\ \E after \in {VisionCameraCall(zoom_camera(vision_camera, delta),
                                      "zoom_camera")} :
            vision_camera' = after
    /\ UNCHANGED <<ohm, ohm_call, vis, vis_call, ohm_sim, vision_sim, circuit, ohm_camera, help_overlay, vis_pair>>

VisionCameraUpdateCamera(has_mouse, mouse) ==
    /\ vision_camera.call.frames < MaxVisionFrames
    /\ \E after \in {VisionCameraCall(
                        vis_update_camera(vision_camera, has_mouse,
                                          mouse[1], mouse[2]),
                        "update_camera")} :
            vision_camera' = after
    /\ UNCHANGED <<ohm, ohm_call, vis, vis_call, ohm_sim, vision_sim, circuit, ohm_camera, help_overlay, vis_pair>>

VisionCameraNext ==
    \/ \E change \in RotateInputs : VisionCameraRotate(change[1], change[2])
    \/ \E has_mouse \in BOOLEAN, mouse \in MousePositions :
            VisionCameraStartMouseDrag(has_mouse, mouse)
    \/ VisionCameraStopMouseDrag
    \/ \E delta \in ZoomInputs : VisionCameraZoom(delta)
    \/ \E has_mouse \in BOOLEAN, mouse \in MousePositions :
            VisionCameraUpdateCamera(has_mouse, mouse)

----------------------------------------------------------------------------
(* HelpOverlay (src/ohms_law_simulation/simulation/ui.py): the visible     *)
(* flag and, per element, whether the toolkit shows it.  The elements are  *)
(* the background frame and the 20 non-empty lines of the help text.       *)

HELP_ELEMENTS == 1..21

\* HelpOverlay._create_overlay: the toolkit creates every element shown
_create_overlay(h) ==
    [h EXCEPT !.elements = [element \in HELP_ELEMENTS |-> TRUE]]

\* HelpOverlay.show
show(h) ==
    [h EXCEPT !.visible = TRUE,
              !.elements = [element \in DOMAIN @ |-> TRUE]]

\* HelpOverlay.hide
hide_flag_only(h) == [h EXCEPT !.visible = FALSE]

hide(h) ==
    [h EXCEPT !.visible = FALSE,
              !.elements = [element \in DOMAIN @ |-> FALSE]]

\* HelpOverlay.toggle, bound to the key h
toggle(h) == IF h.visible THEN hide(h) ELSE show(h)

\* HelpOverlay.__init__
help_overlay_init ==
    hide(_create_overlay(
        [visible |-> FALSE, elements |-> <<>>,
         call |-> [op |-> "__init__", toggles |-> 0, others |-> 0]]))

\* Bounds: the toggle calls and the direct show / hide calls followed
MaxToggles == 6
MaxShowHide == 4

HelpOverlayCall(h, op) ==
    [h EXCEPT !.call = [op |-> op,
                        toggles |-> IF op = "toggle"
                                    THEN @.toggles + 1 ELSE @.toggles,
                        others |-> IF op = "toggle"
                                   THEN @.others ELSE @.others + 1]]

HelpOverlayInit == help_overlay = help_overlay_init

HelpOverlayToggle ==
    /\ help_overlay.call.toggles < MaxToggles
    /\ help_overlay' = HelpOverlayCall(toggle(help_overlay), "toggle")
    /\ UNCHANGED <<ohm, ohm_call, vis, vis_call, ohm_sim, vision_sim, circuit, ohm_camera, vision_camera, vis_pair>>

HelpOverlayShow ==
    /\ help_overlay.call.others < MaxShowHide
    /\ help_overlay' = HelpOverlayCall(show(help_overlay), "show")
    /\ UNCHANGED <<ohm, ohm_call, vis, vis_call, ohm_sim, vision_sim, circuit, ohm_camera, vision_camera, vis_pair>>

HelpOverlayHide ==
    /\ help_overlay.call.others < MaxShowHide
    /\ help_overlay' = HelpOverlayCall(hide(help_overlay), "hide")
    /\ UNCHANGED <<ohm, ohm_call, vis, vis_call, ohm_sim, vision_sim, circuit, ohm_camera, vision_camera, vis_pair>>

HelpOverlayNext ==
    \/ HelpOverlayToggle
    \/ HelpOverlayShow
    \/ HelpOverlayHide

----------------------------------------------------------------------------
(* Two VisionPhysics objects side by side, for the statements that compare *)
(* two states of the engine: lens power and object distance are assigned   *)
(* to both alike, near point and age to each on its own.                   *)

vis_pair_init ==
    [left |-> vis_init(R(25), R(25)), right |-> vis_init(R(25), R(25)),
     call |-> [op |-> "__init__", side |-> "both"]]

\* Inputs: lens powers at and around the 0.01 threshold, at the two
\* singular values -4 and 4, and ordinary ones; two patients' values
PairLensPowerInputs ==
    {R(0), Q(1, 200), Q(1, 100), Q(-1, 100), Q(1, 50), R(2), R(-2), R(-4),
     R(4)}
PairDistanceInputs == {R(25), R(40)}
PairNearPointInputs == {R(25), R(50)}
PairAgeInputs == {R(25), R(70)}
PairSides == {"left", "right"}

VisPairInit == vis_pair = vis_pair_init

VisPairSetLensPower(value) ==
    /\ vis_pair' =
            [left |-> vis_lens_power_setter(vis_pair.left, value),
             right |-> vis_lens_power_setter(vis_pair.right, value),
             call |-> [op |-> "lens_power", side |-> "both"]]
    /\ UNCHANGED <<ohm, ohm_call, vis, vis_call, ohm_sim, vision_sim, circuit, ohm_camera, vision_camera, help_overlay>>

VisPairSetObjectDistance(value) ==
    /\ vis_pair' =
            [left |-> vis_object_distance_setter(vis_pair.left, value),
             right |-> vis_object_distance_setter(vis_pair.right, value),
             call |-> [op |-> "object_distance", side |-> "both"]]
    /\ UNCHANGED <<ohm, ohm_call, vis, vis_call, ohm_sim, vision_sim, circuit, ohm_camera, vision_camera, help_overlay>>

VisPairSetNearPoint(side, value) ==
    /\ vis_pair' =
            [vis_pair EXCEPT ![side] = vis_near_point_setter(@, value),
                             !.call = [op |-> "near_point", side |-> side]]
    /\ UNCHANGED <<ohm, ohm_call, vis, vis_call, ohm_sim, vision_sim, circuit, ohm_camera, vision_camera, help_overlay>>

VisPairSetAge(side, value) ==
    /\ vis_pair' =
            [vis_pair EXCEPT ![side] = vis_age_setter(@, value),
                             !.call = [op |-> "age", side |-> side]]
    /\ UNCHANGED <<ohm, ohm_call, vis, vis_call, ohm_sim, vision_sim, circuit, ohm_camera, vision_camera, help_overlay>>

VisPairNext ==
    \/ \E value \in PairLensPowerInputs : VisPairSetLensPower(value)
    \/ \E value \in PairDistanceInputs : VisPairSetObjectDistance(value)
    \/ \E side \in PairSides, value \in PairNearPointInputs :
            VisPairSetNearPoint(side, value)
    \/ \E side \in PairSides, value \in PairAgeInputs :
            VisPairSetAge(side, value)

----------------------------------------------------------------------------
(* Specifications: each engine and each application on its own, the rest   *)
(* untouched                                                               *)

Init ==
    /\ OhmInit /\ VisInit /\ OhmSimInit /\ VisionSimInit /\ CircuitInit
    /\ OhmCameraInit /\ VisionCameraInit /\ HelpOverlayInit /\ VisPairInit

SpecOhm == Init /\ [][OhmNext]_vars

SpecVision == Init /\ [][VisNext]_vars

SpecOhmSim == Init /\ [][OhmSimNext]_vars

SpecVisionSim == Init /\ [][VisionSimNext]_vars

SpecCircuit == Init /\ [][CircuitNext]_vars

SpecOhmCamera == Init /\ [][OhmCameraNext]_vars

SpecOhmCameraMove == Init /\ [][OhmCameraMoveNext]_vars

SpecVisionCamera == Init /\ [][VisionCameraNext]_vars

SpecHelpOverlay == Init /\ [][HelpOverlayNext]_vars

SpecVisionPair == Init /\ [][VisPairNext]_vars

----------------------------------------------------------------------------
(* Claims about OhmsLawPhysics, checked under SpecOhm                      *)

\* C1: in every reachable state current equals voltage / resistance and
\* power equals voltage * current; no voltage assignment, resistance
\* assignment or set_preset call leaves current or power stale.
C1_CurrentAndPowerNeverStale ==
    /\ ohm.current = FDiv(ohm.voltage, ohm.resistance)
    /\ ohm.power = FMul(ohm.voltage, ohm.current)

\* C1 witness: a resistance assignment after a voltage assignment has moved
\* both away from the defaults, with current and power following.
C1_Witness ==
    /\ ohm_call.op = "resistance"
    /\ ohm.voltage = R(50) /\ ohm.resistance = R(4)
    /\ ohm.current = Q(25, 2) /\ ohm.power = R(625)

\* C2: the stored voltage is always within [1, 50] and the stored resistance
\* within [1, 100]; a resistance assigned below 1 (such as 0) is stored as 1,
\* not as the divide-by-zero floor 0.1.
C2_StoredWithinPublicRange ==
    /\ FLe(R(1), ohm.voltage) /\ FLe(ohm.voltage, R(50))
    /\ FLe(R(1), ohm.resistance) /\ FLe(ohm.resistance, R(100))
    /\ (ohm_call.op = "resistance" /\ FLt(ohm_call.arg, R(1)))
          => ohm.resistance = R(1)

\* C2 witness: resistance assigned 0 and stored as 1.
C2_Witness ==
    /\ ohm_call.op = "resistance" /\ ohm_call.arg = R(0)
    /\ ohm.resistance = R(1)

\* C4: set_preset with a name that is not one of the five preset keys
\* returns False and leaves voltage, resistance, current and power as they
\* were before the call.
C4_UnknownOhmPresetChangesNothing ==
    [][(/\ ohm_call'.op = "set_preset"
        /\ ohm_call'.name \notin {"normal", "high_current", "low_current",
                                  "short_circuit", "open_circuit"})
       => (ohm_call'.ok = FALSE /\ ohm' = ohm)]_vars

\* C4 witness: an unknown name rejected in a state away from the defaults.
C4_Witness ==
    /\ ohm_call.op = "set_preset" /\ ohm_call.name = "Normal"
    /\ ohm_call.ok = FALSE
    /\ ohm.voltage = R(50) /\ ohm.resistance = R(4)

\* C6: set_preset with a known name returns True and leaves voltage and
\* resistance equal to the preset's pair, each clamped into its public range
\* ([1, 50] and [1, 100]), with current and power recomputed from them;
\* short_circuit leaves voltage 12, resistance 1 and current 12.
C6_KnownOhmPresetApplied ==
    (/\ ohm_call.op = "set_preset"
     /\ ohm_call.name \in {"normal", "high_current", "low_current",
                           "short_circuit", "open_circuit"})
    => LET pair == OHM_PRESETS[ohm_call.name]
           v == FMax(R(1), FMin(R(50), pair.voltage))
           r == FMax(R(1), FMin(R(100), pair.resistance))
       IN  /\ ohm_call.ok = TRUE
           /\ ohm.voltage = v /\ ohm.resistance = r
           /\ ohm.current = FDiv(v, r)
           /\ ohm.power = FMul(v, FDiv(v, r))
           /\ ohm_call.name = "short_circuit"
                 => /\ ohm.voltage = R(12) /\ ohm.resistance = R(1)
                    /\ ohm.current = R(12)

\* C6 witness: the short_circuit preset applied.
C6_Witness ==
    /\ ohm_call.op = "set_preset" /\ ohm_call.name = "short_circuit"
    /\ ohm_call.ok = TRUE
    /\ ohm.resistance = R(1) /\ ohm.current = R(12)

\* C7: is_dangerous returns a true flag exactly when current > 20 or
\* power > 500 (strictly); with current > 20 the message is the high-current
\* warning whatever the power, with only power > 500 it is the high-power
\* warning, and otherwise the result is (False, "").
C7_DangerousExactlyAboveLimits ==
    ohm_call.op = "is_dangerous"
    => /\ ohm_call.ok = (FLt(R(20), ohm.current) \/ FLt(R(500), ohm.power))
       /\ FLt(R(20), ohm.current)
             => ohm_call.msg =
                  "WARNING: Very high current! Risk of short circuit!"
       /\ (FLe(ohm.current, R(20)) /\ FLt(R(500), ohm.power))
             => ohm_call.msg = "WARNING: Very high power dissipation!"
       /\ (FLe(ohm.current, R(20)) /\ FLe(ohm.power, R(500)))
             => (ohm_call.ok = FALSE /\ ohm_call.msg = "")

\* C7 witness: is_dangerous called at the boundary current = 20 (20 V over
\* 1 ohm, 400 W) and answering not dangerous.
C7_Witness ==
    /\ ohm_call.op = "is_dangerous"
    /\ ohm.current = R(20) /\ FLe(ohm.power, R(500))
    /\ ohm_call.ok = FALSE /\ ohm_call.msg = ""

\* Further cases of C7 that the input sets reach.
C7_CasePowerBoundary ==
    /\ ohm_call.op = "is_dangerous"
    /\ ohm.power = R(500) /\ FLe(ohm.current, R(20)) /\ ohm_call.ok = FALSE
C7_CaseBothAbove ==
    /\ ohm_call.op = "is_dangerous"
    /\ FLt(R(20), ohm.current) /\ FLt(R(500), ohm.power)
    /\ ohm_call.msg = "WARNING: Very high current! Risk of short circuit!"
C7_CaseOnlyPower ==
    /\ ohm_call.op = "is_dangerous"
    /\ FLe(ohm.current, R(20)) /\ FLt(R(500), ohm.power)
    /\ ohm_call.msg = "WARNING: Very high power dissipation!"
C7_CaseOnlyCurrent ==
    /\ ohm_call.op = "is_dangerous"
    /\ FLt(R(20), ohm.current) /\ FLe(ohm.power, R(500))
    /\ ohm_call.msg = "WARNING: Very high current! Risk of short circuit!"

----------------------------------------------------------------------------
(* Claims about VisionPhysics, checked under SpecVision                    *)

\* C3: get_effective_near_point, get_focus_quality and get_status_text
\* return a value, without a division-by-zero error, for every lens_power
\* the setter can store.
C3_EffectiveNearPointNeverRaises ==
    vis_call.op \in {"get_effective_near_point", "get_focus_quality",
                     "get_status_text"}
    => (vis_call.ok = TRUE /\ vis_call.ret # ZeroDivisionError)

\* C5: set_preset with a name that is not one of the five preset keys
\* returns False and leaves near_point, age, object_distance, lens_power and
\* required_power as they were before the call.
C5_UnknownVisionPresetChangesNothing ==
    [][(/\ vis_call'.op = "set_preset"
        /\ vis_call'.name \notin {"normal", "mild_myopia", "moderate_myopia",
                                  "mild_hyperopia", "presbyopia"})
       => (vis_call'.ok = FALSE /\ vis' = vis)]_vars

\* C5 witness: an unknown name rejected in a state away from the defaults.
C5_Witness ==
    /\ vis_call.op = "set_preset" /\ vis_call.name = "short_circuit"
    /\ vis_call.ok = FALSE
    /\ vis.near_point = R(15) /\ vis.age = R(60) /\ vis.lens_power = R(4)
    /\ vis.object_distance = R(40)

\* C8: in every reachable state required_power is the value derived from the
\* stored near_point: 0 if |near_point - 25| < 0.1, else 1/v - 1/u with
\* v = -near_point/100 and u = -0.25.
C8_RequiredPowerFollowsNearPoint ==
    vis.required_power =
        IF FLt(FAbs(FSub(vis.near_point, R(25))), Q(1, 10))
        THEN R(0)
        ELSE FSub(FDiv(R(1), FDiv(FNeg(vis.near_point), R(100))),
                  FDiv(R(1), Q(-1, 4)))

\* C8 witness: the age-driven overwrite (age 60, near_point 35) with
\* required_power recomputed to 4 - 100/35 = 8/7.
C8_Witness ==
    /\ vis_call.op = "age" /\ vis_call.arg = R(60)
    /\ vis.near_point = R(35) /\ vis.required_power = Q(8, 7)

\* C9: in every reachable state near_point is within [10, 100],
\* object_distance within [5, 200], lens_power within [-10, 10] and age
\* within [5, 100].
C9_VisionFieldsWithinRange ==
    /\ FLe(R(10), vis.near_point) /\ FLe(vis.near_point, R(100))
    /\ FLe(R(5), vis.object_distance) /\ FLe(vis.object_distance, R(200))
    /\ FLe(R(-10), vis.lens_power) /\ FLe(vis.lens_power, R(10))
    /\ FLe(R(5), vis.age) /\ FLe(vis.age, R(100))

\* C9 witness: age assigned 120, stored as 100, with the age-driven
\* near_point 55 written past the near-point clamp.
C9_Witness ==
    /\ vis_call.op = "age" /\ vis_call.arg = R(120)
    /\ vis.age = R(100) /\ vis.near_point = R(55)

\* The age an assignment of `value` should store, and the near point an age
\* above 40 should give, as C10 states them.
C10_StoredAge(value) == FMax(R(5), FMin(R(100), value))
C10_AgedNearPoint(a) == FAdd(R(25), FMul(FDiv(FSub(a, R(40)), R(60)), R(30)))

\* C10: an age assignment stores the argument clamped to [5, 100]; if the
\* stored age is above 40, near_point becomes 25 + ((age - 40)/60) * 30 and
\* required_power is recomputed from it; otherwise near_point and
\* required_power stay as they were.
C10_AgeAssignment ==
    [][vis_call'.op = "age"
       => /\ vis'.age = C10_StoredAge(vis_call'.arg)
          /\ FLt(R(40), vis'.age)
               => /\ vis'.near_point = C10_AgedNearPoint(vis'.age)
                  /\ vis'.required_power =
                        IF FLt(FAbs(FSub(vis'.near_point, R(25))), Q(1, 10))
                        THEN R(0)
                        ELSE FSub(R(4), FDiv(R(100), vis'.near_point))
                  /\ (vis'.age = R(60) => vis'.near_point = R(35))
          /\ FLe(vis'.age, R(40))
               => /\ vis'.near_point = vis.near_point
                  /\ vis'.required_power = vis.required_power]_vars

\* C10 witness: age 30 assigned after age 60 had overwritten near_point with
\* 35; near_point is still 35.
C10_Witness ==
    /\ vis_call.op = "age" /\ vis_call.arg = R(30)
    /\ vis.age = R(30) /\ vis.near_point = R(35)
    /\ vis.required_power = Q(8, 7)

\* C11: required_power is exactly 0 when |near_point - 25| < 0.1 (so at
\* 25.0), negative for every stored near_point below 25 outside that band
\* and positive for every stored near_point above 25 outside it.
C11_RequiredPowerSign ==
    /\ FLt(FAbs(FSub(vis.near_point, R(25))), Q(1, 10))
          => vis.required_power = R(0)
    /\ FLe(vis.near_point, Q(249, 10)) => FLt(vis.required_power, R(0))
    /\ FLe(Q(251, 10), vis.near_point) => FLt(R(0), vis.required_power)

\* C11 witness: near_point 15 assigned, required_power 4 - 100/15 = -8/3.
C11_Witness ==
    /\ vis_call.op = "near_point" /\ vis.near_point = R(15)
    /\ vis.required_power = Q(-8, 3)

\* Further cases of C11 that the inputs reach.
C11_CaseInsideBand ==
    vis.near_point = Q(499, 20) /\ vis.required_power = R(0)
C11_CaseConvex ==
    vis.near_point = R(40) /\ vis.required_power = Q(3, 2)

\* C12: get_effective_near_point returns the stored near_point when
\* |lens_power| < 0.01 and when |focal_length - u| <= 0.001 (focal_length =
\* 1/lens_power, u = -0.25); in every other case it returns
\* |focal_length * u / (focal_length + u)| * 100 clamped into [10, 100]; its
\* result is always within [10, 100].
C12_EffectiveNearPointCases ==
    vis_call.op = "get_effective_near_point"
    => /\ vis_call.ok = TRUE
       /\ FLe(R(10), vis_call.ret) /\ FLe(vis_call.ret, R(100))
       /\ vis_call.ret =
            IF FLt(FAbs(vis.lens_power), Q(1, 100)) THEN vis.near_point
            ELSE IF FLe(FAbs(FSub(FDiv(R(1), vis.lens_power), Q(-1, 4))),
                        Q(1, 1000))
            THEN vis.near_point
            ELSE FMin(R(100), FMax(R(10),
                   FMul(FAbs(FDiv(FMul(FDiv(R(1), vis.lens_power), Q(-1, 4)),
                                  FAdd(FDiv(R(1), vis.lens_power), Q(-1, 4)))),
                        R(100))))

\* The gap |object_distance - effective_near_point()| of a state in which
\* the effective near point has a value.
C13_Gap(self) ==
    FAbs(FSub(self.object_distance, get_effective_near_point(self)))

\* C13: whenever get_focus_quality returns, with gap = |object_distance -
\* effective_near_point()|: the result is 1 for every gap below 2, 1 - gap/30
\* for gaps from 2 up to 30, and 0 for gaps of 30 or more; it is within
\* [0, 1], and a state that differs only in object_distance and has a gap at
\* least as large has a focus quality no larger.
C13_FocusQualityOfGap ==
    (vis_call.op = "get_focus_quality" /\ vis_call.ok)
    => /\ FLt(C13_Gap(vis), R(2)) => vis_call.ret = R(1)
       /\ (FLe(R(2), C13_Gap(vis)) /\ FLt(C13_Gap(vis), R(30)))
             => vis_call.ret = FSub(R(1), FDiv(C13_Gap(vis), R(30)))
       /\ FLe(R(30), C13_Gap(vis)) => vis_call.ret = R(0)
       /\ FLe(R(0), vis_call.ret) /\ FLe(vis_call.ret, R(1))
       /\ \A d \in ObjectDistanceInputs :
            FLe(C13_Gap(vis), C13_Gap(vis_object_distance_setter(vis, d)))
            => FLe(get_focus_quality(vis_object_distance_setter(vis, d)),
                   vis_call.ret)

\* C13 witness: a gap beyond 30 cm (object at 200 cm, effective near point
\* 25 cm) with the quality floored at 0.
C13_Witness ==
    /\ vis_call.op = "get_focus_quality" /\ vis_call.ok
    /\ vis.object_distance = R(200) /\ vis.near_point = R(25)
    /\ vis.lens_power = R(0)
    /\ vis_call.ret = R(0)

\* Further cases of C13 that the inputs reach.
C13_CaseExact ==
    /\ vis_call.op = "get_focus_quality" /\ vis_call.ok
    /\ C13_Gap(vis) = R(0) /\ vis_call.ret = R(1)
C13_CaseLinear ==
    /\ vis_call.op = "get_focus_quality" /\ vis_call.ok
    /\ C13_Gap(vis) = R(15) /\ vis_call.ret = Q(1, 2)

\* C14: get_vision_condition answers 'myopia' when near_point < 20,
\* 'presbyopia' when near_point > 30 and age > 45, 'hyperopia' when
\* near_point > 30 and age <= 45, and 'normal' for every near_point from 20
\* to 30 inclusive whatever the age.
C14_VisionCondition ==
    vis_call.op = "get_vision_condition"
    => /\ vis_call.text \in {"myopia", "presbyopia", "hyperopia", "normal"}
       /\ (vis_call.text = "myopia") = FLt(vis.near_point, R(20))
       /\ (vis_call.text = "presbyopia")
             = (FLt(R(30), vis.near_point) /\ FLt(R(45), vis.age))
       /\ (vis_call.text = "hyperopia")
             = (FLt(R(30), vis.near_point) /\ FLe(vis.age, R(45)))
       /\ (vis_call.text = "normal")
             = (FLe(R(20), vis.near_point) /\ FLe(vis.near_point, R(30)))

\* C14 witness: near_point 30 at age 60 is still 'normal'.
C14_Witness ==
    /\ vis_call.op = "get_vision_condition"
    /\ vis.near_point = R(30) /\ vis.age = R(60)
    /\ vis_call.text = "normal"

\* Further cases of C14 that the inputs reach.
C14_CaseLowerBoundary ==
    /\ vis_call.op = "get_vision_condition"
    /\ vis.near_point = R(20) /\ vis_call.text = "normal"
C14_CaseHyperopiaAt45 ==
    /\ vis_call.op = "get_vision_condition"
    /\ vis.near_point = R(40) /\ vis.age = R(45)
    /\ vis_call.text = "hyperopia"
C14_CasePresbyopia ==
    /\ vis_call.op = "get_vision_condition"
    /\ vis.near_point = R(35) /\ vis.age = R(60)
    /\ vis_call.text = "presbyopia"
C14_CaseMyopia ==
    /\ vis_call.op = "get_vision_condition"
    /\ vis.near_point = R(15) /\ vis.age = R(100)
    /\ vis_call.text = "myopia"

\* C15: get_lens_type answers 'concave' when near_point < 23, 'convex' when
\* near_point > 27 and 'none' for every near_point from 23 to 27 inclusive,
\* whatever lens_power, age and object_distance are.
C15_LensType ==
    vis_call.op = "get_lens_type"
    => vis_call.text =
         IF FLt(vis.near_point, R(23)) THEN "concave"
         ELSE IF FLt(R(27), vis.near_point) THEN "convex"
         ELSE "none"

\* C15 witness: near_point 23 answers 'none' with a lens applied, an object
\* away from the near point and an age above 45.
C15_Witness ==
    /\ vis_call.op = "get_lens_type"
    /\ vis.near_point = R(23) /\ vis_call.text = "none"
    /\ vis.lens_power = R(4) /\ vis.object_distance = R(200)
    /\ vis.age = R(60)

\* Further cases of C15 that the inputs reach.
C15_CaseUpperBoundary ==
    /\ vis_call.op = "get_lens_type"
    /\ vis.near_point = R(27) /\ vis_call.text = "none"
C15_CaseConcave ==
    /\ vis_call.op = "get_lens_type"
    /\ vis.near_point = R(20) /\ vis_call.text = "concave"
C15_CaseConvex ==
    /\ vis_call.op = "get_lens_type"
    /\ vis.near_point = R(30) /\ vis_call.text = "convex"

\* C16: set_preset with a known name returns True and leaves near_point and
\* age equal to the preset record's values, without the age-driven formula
\* (mild_hyperopia keeps 40 at age 45, presbyopia keeps 50 at age 60), with
\* required_power recomputed, and leaves object_distance and lens_power as
\* they were.
C16_KnownVisionPresetApplied ==
    [][(/\ vis_call'.op = "set_preset"
        /\ vis_call'.name \in {"normal", "mild_myopia", "moderate_myopia",
                               "mild_hyperopia", "presbyopia"})
       => /\ vis_call'.ok = TRUE
          /\ vis'.near_point = VIS_PRESETS[vis_call'.name].near_point
          /\ vis'.age = VIS_PRESETS[vis_call'.name].age
          /\ (vis_call'.name = "mild_hyperopia"
                => vis'.near_point = R(40) /\ vis'.age = R(45))
          /\ (vis_call'.name = "presbyopia"
                => vis'.near_point = R(50) /\ vis'.age = R(60))
          /\ vis'.required_power =
                IF FLt(FAbs(FSub(vis'.near_point, R(25))), Q(1, 10))
                THEN R(0)
                ELSE FSub(R(4), FDiv(R(100), vis'.near_point))
          /\ vis'.object_distance = vis.object_distance
          /\ vis'.lens_power = vis.lens_power]_vars

\* C16 witness: the presbyopia preset applied with a lens and an object
\* distance away from the defaults.
C16_Witness ==
    /\ vis_call.op = "set_preset" /\ vis_call.name = "presbyopia"
    /\ vis_call.ok = TRUE
    /\ vis.near_point = R(50) /\ vis.age = R(60)
    /\ vis.required_power = R(2)
    /\ vis.lens_power = R(4) /\ vis.object_distance = R(200)

----------------------------------------------------------------------------
(* Claims about the VisionSimulation application, checked under            *)
(* SpecVisionSim                                                           *)

\* C17: when VisionUI._on_preset_click(name) has finished for a known preset,
\* the model's near_point and age equal the preset record's values and
\* lens_power is 0.0, also when writing a slider's 'value' runs that
\* slider's change handler.
C17_PresetClickAppliesPreset ==
    (vision_sim.call.op = "_on_preset_click" /\ ~vision_sim.raised) =>
        /\ vision_sim.physics.near_point =
                VIS_PRESETS[vision_sim.call.name].near_point
        /\ vision_sim.physics.age = VIS_PRESETS[vision_sim.call.name].age
        /\ vision_sim.physics.lens_power = R(0)

\* C18: after VisionScene.update_lens_power, update_corrective_lens or
\* update_object_distance, which end in _update_light_rays, the focal
\* point's colour is the band of the model's current focus quality, with
\* the bands of update_light_rays: green above 80 percent, yellow above 50
\* percent, red otherwise.
C18_Band(percent) ==
    IF FGt(percent, R(80)) THEN GREEN
    ELSE IF FGt(percent, R(50)) THEN YELLOW
    ELSE RED

C18_FocalColourMatchesFocusBand ==
    (/\ vision_sim.call.op \in {"update_lens_power", "update_corrective_lens",
                                "update_object_distance"}
     /\ ~vision_sim.raised) =>
        vision_sim.focal_color =
            C18_Band(FMul(get_focus_quality(vision_sim.physics), R(100)))

----------------------------------------------------------------------------
(* Claims about the OhmsLawSimulation application, checked under           *)
(* SpecOhmSim                                                              *)

\* C19: whenever a UI entry point has finished (_on_voltage_change,
\* _on_resistance_change, _on_preset_click, _quick_preset, reset_simulation
\* or the per-frame update_simulation), the warning label's text is
\* non-empty if and only if is_dangerous() is true of the current model
\* state, and is then the message is_dangerous() returns; a warning is not
\* left displayed once the model has left the dangerous region.
C19_WarningLabelFollowsDanger ==
    /\ (ohm_sim.warning_label # "") <=> is_dangerous(ohm_sim.physics)[1]
    /\ is_dangerous(ohm_sim.physics)[1] =>
            ohm_sim.warning_label = is_dangerous(ohm_sim.physics)[2]
    /\ (ohm_sim.call.was_dangerous /\ ~is_dangerous(ohm_sim.physics)[1]) =>
            ohm_sim.warning_label = ""

\* An entry point has taken the model out of the dangerous region and the
\* label is cleared.
C19_Witness ==
    /\ ohm_sim.call.op \in {"_on_voltage_change", "_on_resistance_change",
                            "_on_preset_click", "_quick_preset",
                            "reset_simulation"}
    /\ ohm_sim.call.was_dangerous
    /\ ~is_dangerous(ohm_sim.physics)[1]
    /\ ohm_sim.warning_label = ""

C19_CaseCurrentWarningShown ==
    /\ ohm_sim.call.op = "_on_resistance_change"
    /\ ~ohm_sim.call.was_dangerous
    /\ ohm_sim.warning_label = HIGH_CURRENT_MSG

C19_CasePowerWarningShown ==
    /\ ohm_sim.call.op = "_on_voltage_change"
    /\ ohm_sim.warning_label = HIGH_POWER_MSG

C19_CaseFrameKeepsWarning ==
    /\ ohm_sim.call.op = "update_simulation"
    /\ ohm_sim.call.was_dangerous
    /\ ohm_sim.warning_label # ""

\* C20: reset_simulation(), called in any reachable state, leaves the model
\* at voltage 12.0, resistance 10.0, current 1.2 and power 14.4 and the
\* camera at distance 15.0, heading 0.0, pitch -20.0; that model state is
\* the one the constructor builds and the one set_preset('normal') gives;
\* and a second reset_simulation() changes nothing.
C20_IsResetState(s) ==
    /\ s.physics = [voltage |-> R(12), resistance |-> R(10),
                    current |-> Q(6, 5), power |-> Q(72, 5)]
    /\ s.physics = ohm_sim_init.physics
    /\ s.physics = ohm_set_preset(ohm_sim.physics, "normal")[2]
    /\ s.camera_distance = R(15)
    /\ s.camera_heading = R(0)
    /\ s.camera_pitch = R(-20)

C20_ResetSimulation ==
    /\ \A runs_command \in BOOLEAN :
            /\ C20_IsResetState(reset_simulation(ohm_sim, runs_command))
            /\ \A again \in BOOLEAN :
                    reset_simulation(reset_simulation(ohm_sim, runs_command),
                                     again)
                        = reset_simulation(ohm_sim, runs_command)
    /\ ohm_sim.call.op = "reset_simulation" => C20_IsResetState(ohm_sim)

\* reset_simulation has run in a state where the model was in the dangerous
\* region, away from the defaults.
C20_Witness ==
    /\ ohm_sim.call.op = "reset_simulation"
    /\ ohm_sim.call.was_dangerous
    /\ C20_IsResetState(ohm_sim)

\* A state with the camera and the model both away from the defaults, in
\* which reset_simulation is then applied.
C20_CaseCameraMoved ==
    /\ ohm_sim.camera_distance # R(15)
    /\ ohm_sim.camera_heading # R(0)
    /\ ohm_sim.camera_pitch # R(-20)
    /\ ohm_sim.physics # ohm_sim_init.physics

----------------------------------------------------------------------------
(* Claims about the Circuit, checked under SpecCircuit                     *)

\* C21: after any sequence of Circuit.update calls each electron has at most
\* one looping animation sequence, since animate_along_path finishes the
\* electron's previous sequence before it creates and loops the new one; the
\* path of electron i is the 17-point circuit loop rotated to its own start
\* index int(i / 15 * 17); and every update restarts all 15 electrons, with
\* the segment duration 0.1 / (0.5 + 0.3 * current) of that update.
C21_RotatedLoop(i, path) ==
    /\ Len(path) = 17
    /\ \A k \in 1..17 :
            path[k] = electron_path[(((17 * i) \div 15 + k - 1) % 17) + 1]

C21_ElectronAnimations ==
    /\ DOMAIN circuit.electrons = 0..14
    /\ \A i \in 0..14 :
            /\ circuit.electrons[i].looping <= 1
            /\ circuit.call.updates = 0 =>
                    /\ circuit.electrons[i].looping = 0
                    /\ circuit.electrons[i].animation_sequence = NoSequence
            /\ circuit.call.updates > 0 =>
                    /\ circuit.electrons[i].looping = 1
                    /\ C21_RotatedLoop(
                            i, circuit.electrons[i].animation_sequence.path)
                    /\ circuit.electrons[i].animation_sequence
                            .duration_per_segment =
                        FDiv(Q(1, 10),
                             FAdd(Q(1, 2),
                                  FMul(circuit.call.current, Q(3, 10))))

\* A second update has replaced the sequences of the first, and the last
\* electron's path starts at point 15 of the loop.
C21_Witness ==
    /\ circuit.call.updates = 2
    /\ \A i \in 0..14 : circuit.electrons[i].looping = 1
    /\ circuit.electrons[14].animation_sequence.path[1] =
            Point3(Q(-5, 2), R(0), Q(3, 10))
    /\ circuit.electrons[0].animation_sequence.path = electron_path


----------------------------------------------------------------------------
(* Claims about the camera of OhmsLawSimulation, checked under             *)
(* SpecOhmCamera                                                           *)

\* C22: after any sequence of zoom_in, zoom_out, arrow-key orbit frames,
\* mouse-drag frames and reset_simulation the camera distance is within
\* [5.0, 30.0] and the camera pitch within [-89, 89]; zoom_in at distance
\* 5.0 and zoom_out at distance 30.0 leave the distance unchanged.
C22_CameraWithinRange ==
    /\ FLe(R(5), ohm_camera.camera_distance)
    /\ FLe(ohm_camera.camera_distance, R(30))
    /\ FLe(R(-89), ohm_camera.camera_pitch)
    /\ FLe(ohm_camera.camera_pitch, R(89))
    /\ ohm_camera.camera_distance = R(5) =>
            zoom_in(ohm_camera).camera_distance = R(5)
    /\ ohm_camera.camera_distance = R(30) =>
            zoom_out(ohm_camera).camera_distance = R(30)
    /\ (ohm_camera.call.op = "zoom_in"
            /\ ohm_camera.call.was_distance = R(5)) =>
            ohm_camera.camera_distance = R(5)
    /\ (ohm_camera.call.op = "zoom_out"
            /\ ohm_camera.call.was_distance = R(30)) =>
            ohm_camera.camera_distance = R(30)

\* zoom_in has run at distance 5.0 with the pitch held at the upper clamp.
C22_Witness ==
    /\ ohm_camera.call.op = "zoom_in"
    /\ ohm_camera.call.was_distance = R(5)
    /\ ohm_camera.camera_distance = R(5)
    /\ ohm_camera.camera_pitch = R(89)

\* zoom_out has run at distance 30.0.
C22_CaseZoomOutAtLimit ==
    /\ ohm_camera.call.op = "zoom_out"
    /\ ohm_camera.call.was_distance = R(30)
    /\ ohm_camera.camera_distance = R(30)

\* a frame has run in which the drag took the pitch to a clamp and the held
\* arrow key pushed against it
C22_CaseOrbitUpAtClamp ==
    /\ ohm_camera.call.op = "update_camera"
    /\ ohm_camera.keys = {"orbit_up"}
    /\ ohm_camera.mouse_drag_active
    /\ ohm_camera.call.was_pitch = R(-20)
    /\ ohm_camera.camera_pitch = R(89)

C22_CaseOrbitDownAtClamp ==
    /\ ohm_camera.call.op = "update_camera"
    /\ ohm_camera.keys = {"orbit_down"}
    /\ ohm_camera.mouse_drag_active
    /\ ohm_camera.call.was_pitch = R(-20)
    /\ ohm_camera.camera_pitch = R(-89)

\* a mouse-drag frame has taken the pitch from -20 to the lower clamp
C22_CaseDragToClamp ==
    /\ ohm_camera.call.op = "update_camera"
    /\ ohm_camera.mouse_drag_active
    /\ ohm_camera.keys = {}
    /\ ohm_camera.call.was_pitch = R(-20)
    /\ ohm_camera.camera_pitch = R(-89)


----------------------------------------------------------------------------
(* Claims about the free movement of OhmsLawSimulation's camera, checked   *)
(* under SpecOhmCameraMove                                                 *)

\* C24: every handler that ends in _update_camera_position (a frame of
\* update_camera, zoom_in, zoom_out, reset_simulation) leaves the camera at
\* the orbital position of its distance, heading and pitch exactly when none
\* of forward, backward, left, right, up, down is held; while one of them is
\* held the position reached by free movement is kept (a frame adds that
\* frame's moves to it, a zoom or reset leaves it as it was), and the first
\* frame after all are released puts the camera back on the orbit.  set_key
\* itself does not move the camera.
C24_Step ==
    /\ ohm_camera'.call.op = "set_key" =>
            ohm_camera'.camera_pos = ohm_camera.camera_pos
    /\ (ohm_camera'.call.op \in {"update_camera", "zoom_in", "zoom_out",
                                 "reset_simulation"}
            /\ ohm_camera'.keys \cap MOVEMENT_KEYS = {}) =>
            /\ ohm_camera'.camera_pos.moves = <<>>
            /\ ohm_camera'.camera_pos.orbit =
                    <<ohm_camera'.camera_distance,
                      ohm_camera'.camera_heading,
                      ohm_camera'.camera_pitch>>
    /\ (ohm_camera'.call.op \in {"zoom_in", "zoom_out", "reset_simulation"}
            /\ ohm_camera'.keys \cap MOVEMENT_KEYS # {}) =>
            ohm_camera'.camera_pos = ohm_camera.camera_pos
    /\ (ohm_camera'.call.op = "update_camera"
            /\ ohm_camera'.keys \cap MOVEMENT_KEYS # {}) =>
            /\ ohm_camera'.camera_pos.orbit = ohm_camera.camera_pos.orbit
            /\ Len(ohm_camera'.camera_pos.moves)
                    = Len(ohm_camera.camera_pos.moves)
                        + Cardinality(ohm_camera.keys \cap MOVEMENT_KEYS)
            /\ SubSeq(ohm_camera'.camera_pos.moves, 1,
                      Len(ohm_camera.camera_pos.moves))
                    = ohm_camera.camera_pos.moves

C24_OrbitExactlyWhenNoMovementKey == [][C24_Step]_vars

\* The first frame after the release of all movement keys has run: the
\* camera had moved freely, at a distance other than the default, and is
\* back on the orbit.
C24_Witness ==
    /\ ohm_camera.call.op = "update_camera"
    /\ ohm_camera.call.was_moved
    /\ ohm_camera.keys = {}
    /\ ohm_camera.camera_distance # R(15)
    /\ ohm_camera.camera_pos =
            [orbit |-> <<ohm_camera.camera_distance,
                         ohm_camera.camera_heading,
                         ohm_camera.camera_pitch>>,
             moves |-> <<>>]

\* zoom_in has run with a movement key held: the distance changed and the
\* freely moved position stayed.
C24_CaseZoomWhileMoving ==
    /\ ohm_camera.call.op = "zoom_in"
    /\ ohm_camera.keys = {"forward"}
    /\ ohm_camera.camera_pos.moves = <<"forward">>
    /\ ohm_camera.camera_pos.orbit[1] # ohm_camera.camera_distance

\* two frames have run with forward and backward both held
C24_CaseTwoKeysTwoFrames ==
    /\ ohm_camera.call.op = "update_camera"
    /\ ohm_camera.keys = {"forward", "backward"}
    /\ ohm_camera.camera_pos.moves
            = <<"forward", "backward", "forward", "backward">>


----------------------------------------------------------------------------
(* Claims about the camera of VisionSimulation, checked under              *)
(* SpecVisionCamera                                                        *)

\* C23: after any sequence of zoom_camera(+1 / -1), rotate_camera steps and
\* mouse-drag frames the camera distance is within [5, 40] and the camera
\* pitch within [-89, 89], while the heading is neither bounded nor wrapped:
\* an arrow-key step adds exactly 5 or -5 to it wherever it stands.
C23_VisionCameraWithinRange ==
    /\ FLe(R(5), vision_camera.camera_distance)
    /\ FLe(vision_camera.camera_distance, R(40))
    /\ FLe(R(-89), vision_camera.camera_pitch)
    /\ FLe(vision_camera.camera_pitch, R(89))
    /\ \A change \in RotateInputs :
            rotate_camera(vision_camera, change[1], change[2]).camera_heading
                = FAdd(vision_camera.camera_heading, R(change[1]))
    /\ \A mouse \in MousePositions :
            vis_update_camera(vision_camera, TRUE, mouse[1], mouse[2])
                    .camera_heading
                = IF vision_camera.mouse_dragging
                  THEN FSub(vision_camera.camera_heading,
                            FMul(FSub(mouse[1], vision_camera.last_mouse_x),
                                 R(80)))
                  ELSE vision_camera.camera_heading
    /\ (vision_camera.call.op = "zoom_camera"
            /\ vision_camera.call.was_distance \in {R(5), R(40)}) =>
            FAbs(FSub(vision_camera.camera_distance,
                      vision_camera.call.was_distance)) \in {R(0), R(1)}

\* The heading has left [-360, 360] while the distance stands at a limit
\* after a zoom there and the pitch at a clamp.
C23_Witness ==
    /\ FGt(FAbs(vision_camera.camera_heading), R(360))
    /\ vision_camera.call.op = "zoom_camera"
    /\ vision_camera.call.was_distance = R(40)
    /\ vision_camera.camera_distance = R(40)
    /\ FAbs(vision_camera.camera_pitch) = R(89)

\* an arrow-key step has run against the pitch clamp
C23_CaseRotateAtClamp ==
    /\ vision_camera.call.op = "rotate_camera"
    /\ vision_camera.call.was_pitch = R(89)
    /\ vision_camera.camera_pitch = R(89)

\* zoom_camera(-1) has run at distance 5
C23_CaseZoomInAtLimit ==
    /\ vision_camera.call.op = "zoom_camera"
    /\ vision_camera.call.was_distance = R(5)
    /\ vision_camera.camera_distance = R(5)


----------------------------------------------------------------------------
(* Claims about HelpOverlay, checked under SpecHelpOverlay                 *)

\* C25: the overlay starts hidden; each toggle() flips the visible flag and
\* shows or hides every element accordingly, so that after any sequence of
\* toggle / show / hide calls the visible flag equals the shown state of
\* each of the 21 elements, and an even number of toggles from the initial
\* state (with no show or hide call between) leaves the overlay hidden, an
\* odd number shown.
C25_VisibleFlagMatchesElements ==
    /\ DOMAIN help_overlay.elements = HELP_ELEMENTS
    /\ \A element \in HELP_ELEMENTS :
            help_overlay.elements[element] = help_overlay.visible
    /\ help_overlay.call.op = "__init__" => ~help_overlay.visible
    /\ toggle(help_overlay).visible = ~help_overlay.visible
    /\ \A element \in HELP_ELEMENTS :
            toggle(help_overlay).elements[element] = ~help_overlay.visible
    /\ toggle(toggle(help_overlay)) = help_overlay
    /\ help_overlay.call.others = 0 =>
            help_overlay.visible = (help_overlay.call.toggles % 2 = 1)
    /\ help_overlay.call.op = "show" => help_overlay.visible
    /\ help_overlay.call.op = "hide" => ~help_overlay.visible

\* Four toggles and nothing else have run: the overlay is hidden again,
\* every element with it.
C25_Witness ==
    /\ help_overlay.call.op = "toggle"
    /\ help_overlay.call.toggles = 4
    /\ help_overlay.call.others = 0
    /\ ~help_overlay.visible
    /\ \A element \in HELP_ELEMENTS : ~help_overlay.elements[element]

\* a toggle has run after a direct show(): two toggles, overlay shown
C25_CaseToggleAfterShow ==
    /\ help_overlay.call.op = "toggle"
    /\ help_overlay.call.toggles = 2
    /\ help_overlay.call.others = 1
    /\ help_overlay.visible
    /\ \A element \in HELP_ELEMENTS : help_overlay.elements[element]


----------------------------------------------------------------------------
(* Claims about the presets of the Ohm's law simulation, checked under     *)
(* SpecOhmSim                                                              *)

\* C26: no preset produces a dangerous state: from any reachable state,
\* set_preset(name) for each of the five names, 'short_circuit' and
\* 'high_current' included, leaves a model for which is_dangerous() returns
\* (False, ''), and after a preset button or a number key 1..5 the warning
\* label is empty.
C26_NoPresetIsDangerous ==
    /\ \A preset_name \in OHM_PRESET_NAMES :
            /\ ohm_set_preset(ohm_sim.physics, preset_name)[1]
            /\ is_dangerous(ohm_set_preset(ohm_sim.physics, preset_name)[2])
                    = <<FALSE, "">>
    /\ ohm_sim.call.op \in {"_on_preset_click", "_quick_preset"} =>
            /\ is_dangerous(ohm_sim.physics) = <<FALSE, "">>
            /\ ohm_sim.warning_label = ""

\* The short-circuit button has been pressed while the warning was shown:
\* the model stands at 12 V and the clamped 1 Ohm, 12 A and 144 W, and the
\* warning is gone.
C26_Witness ==
    /\ ohm_sim.call.op = "_on_preset_click"
    /\ ohm_sim.call.name = "short_circuit"
    /\ ohm_sim.call.was_dangerous
    /\ ohm_sim.physics = [voltage |-> R(12), resistance |-> R(1),
                          current |-> R(12), power |-> R(144)]
    /\ ohm_sim.warning_label = ""

\* The key 2 has been pressed: 24 V over 2 Ohm, 12 A and 288 W.
C26_CaseHighCurrentKey ==
    /\ ohm_sim.call.op = "_quick_preset"
    /\ ohm_sim.call.name = "high_current"
    /\ ohm_sim.physics.current = R(12)
    /\ ohm_sim.physics.power = R(288)
    /\ ohm_sim.warning_label = ""


----------------------------------------------------------------------------
(* Claims about two states of VisionPhysics, checked under SpecVisionPair  *)

\* C27: with a lens applied (|lens_power| >= 0.01 and the singular guard
\* |focal_length - u| > 0.001 passing), two VisionPhysics states that agree
\* on lens_power and object_distance but differ in near_point and age return
\* the same effective near point and the same focus quality.
C27_LensApplied(self) ==
    /\ FLe(Q(1, 100), FAbs(self.lens_power))
    /\ FGt(FAbs(FSub(FDiv(R(1), self.lens_power),
                     FDiv(FNeg(R(NORMAL_NEAR_POINT)), R(100)))),
           Q(1, 1000))

C27_Agree ==
    /\ vis_pair.left.lens_power = vis_pair.right.lens_power
    /\ vis_pair.left.object_distance = vis_pair.right.object_distance

C27_LensResultIndependentOfPatient ==
    (C27_Agree /\ C27_LensApplied(vis_pair.left)) =>
        /\ ~Raised(get_effective_near_point(vis_pair.left))
        /\ ~Raised(get_effective_near_point(vis_pair.right))
        /\ get_effective_near_point(vis_pair.left)
                = get_effective_near_point(vis_pair.right)
        /\ get_focus_quality(vis_pair.left)
                = get_focus_quality(vis_pair.right)

\* The same with the two inputs left out at which the code goes wrong: a
\* lens power of exactly 0.01 or -0.01, where neither `< 0.01` nor `> 0.01`
\* holds and the stored near point is returned, and the lens power 4.0,
\* where the division by focal_length + u raises.
C27_CaseAwayFromThresholdAndPole ==
    (C27_Agree /\ C27_LensApplied(vis_pair.left)
        /\ FAbs(vis_pair.left.lens_power) # Q(1, 100)
        /\ vis_pair.left.lens_power # R(4)) =>
        /\ ~Raised(get_effective_near_point(vis_pair.left))
        /\ get_effective_near_point(vis_pair.left)
                = get_effective_near_point(vis_pair.right)
        /\ get_focus_quality(vis_pair.left)
                = get_focus_quality(vis_pair.right)

\* Two patients with different near points and ages behind the same 2.0
\* dioptre lens.
C27_CaseTwoPatientsOneLens ==
    /\ vis_pair.left.lens_power = R(2)
    /\ vis_pair.right.lens_power = R(2)
    /\ vis_pair.left.near_point # vis_pair.right.near_point
    /\ vis_pair.left.age # vis_pair.right.age
    /\ get_effective_near_point(vis_pair.left) = R(50)
    /\ get_effective_near_point(vis_pair.right) = R(50)

\* The lens power 0.01 with two different near points: two different
\* effective near points.
C27_CaseThreshold ==
    /\ vis_pair.left.lens_power = Q(1, 100)
    /\ vis_pair.right.lens_power = Q(1, 100)
    /\ get_effective_near_point(vis_pair.left) = R(25)
    /\ get_effective_near_point(vis_pair.right) = R(50)

=============================================================================
